---- MODULE Spec2Model ----
(***************************************************************************)
(* PhantomPay: the offline ledger and its reconciliation protocol.         *)
(*                                                                         *)
(* Server side: the PL/pgSQL function process_offline_batch and the tables *)
(* profiles and transactions (README.md, "DATABASE SCHEMA").               *)
(* Client side: the Dexie store (src/lib/db.ts) and the sync engine        *)
(* (syncOfflineTransactions).                                              *)
(***************************************************************************)
EXTENDS Integers, Sequences, FiniteSets, TLC

\* ------------------------------------------------------------------ bounds

\* Longest payload->'transactions' array a raw caller submits.
MaxBatch == 2
\* Number of RPC calls the server clock counts before the model stops.
MaxClock == 2
\* Number of times a captured request is submitted.
MaxSubmits == 2
\* Number of offline transactions the device creates.
MaxTx == 2

\* ------------------------------------------------------------------ values

\* SQL NULL / JS null / JS undefined.
Null == "NULL"

\* auth.uid() of a session: a user with a profile, a user whose profile row
\* is missing, or NULL (no session).
DeviceUser == "u1"
OtherUser == "u2"
GhostUser == "ghost"
Callers == {DeviceUser, OtherUser, GhostUser, Null}

OfflineIds == {"a", "b"}
\* amount is client-supplied: the server casts it to NUMERIC unchecked.
Amounts == {-100, 100}
TxTypes == {"credit", "debit"}
Signatures == {Null, "", "sig"}

\* One element of payload->'transactions' as a raw caller may craft it.
Entries == [offline_id : OfflineIds, amount : Amounts, type : TxTypes, signature : Signatures]

RECURSIVE SeqsUpTo(_, _)
SeqsUpTo(S, n) ==
    IF n = 0 THEN {<<>>}
    ELSE LET shorter == SeqsUpTo(S, n - 1)
         IN  shorter \cup {Append(s, e) : s \in {t \in shorter : Len(t) = n - 1}, e \in S}

Payloads == SeqsUpTo(Entries, MaxBatch)

\* profiles.balance at the start.
InitBalances == {0, 50}

VARIABLES
    profiles,      \* table profiles: id -> [balance, last_synced_at (0: NULL)]
    ledger,        \* table transactions (server), in insertion order
    now,           \* server clock, NOW()
    calls,         \* the last calls of the server functions and their responses
    inflight,      \* the open (uncommitted) process_offline_batch transactions
    origin,        \* table profiles as it was at the start
    payment_requests, \* table payment_requests, in insertion order (id = position)
    request,       \* a captured RPC request body (payload.transactions)
    transactions,  \* Dexie table transactions (device)
    wallet,        \* Dexie table wallet (device): <<>> or <<the row of DeviceUser>>
    nextId,        \* Dexie ++id auto-increment counter
    created,       \* offline_ids in the order addOfflineTransaction stored them
    configured,    \* isSupabaseConfigured()
    syncPc,        \* position of the running syncOfflineTransactions call
    syncBatch,     \* const pending
    syncResp,      \* const response: <<>> or <<the response>>
    syncReturn,    \* what the last finished syncOfflineTransactions returned:
                   \* <<>> (none yet), <<"null">> or <<"response", the response>>
    voice          \* the VoiceAssistant component and its useConversationalVoice hook

serverVars == <<profiles, ledger, now, calls, inflight, origin, payment_requests>>
deviceVars == <<transactions, wallet, nextId, created, configured,
                syncPc, syncBatch, syncResp, syncReturn, voice>>
vars == <<profiles, ledger, now, calls, inflight, origin, payment_requests, request, transactions, wallet, nextId,
          created, configured, syncPc, syncBatch, syncResp, syncReturn, voice>>

\* ------------------------------------------------------------------ helpers

RECURSIVE SumSeq(_)
SumSeq(s) == IF s = <<>> THEN 0 ELSE Head(s) + SumSeq(Tail(s))

\* The amounts of the entries of type t in a sequence of rows.
AmountsOf(rows, t) ==
    SumSeq([i \in 1..Len(rows) |-> IF rows[i].type = t THEN rows[i].amount ELSE 0])

OfflineIdsOf(rows) == [i \in 1..Len(rows) |-> rows[i].offline_id]

LastTwo(s) == IF Len(s) <= 2 THEN s ELSE SubSeq(s, Len(s) - 1, Len(s))

\* ------------------------------------------------- process_offline_batch

\* Mutant of ExistingCount: the idempotency lookup finds nothing.
ExistingCountNone(rows, offline_id) == 0

\* SELECT COUNT(*) FROM transactions WHERE offline_id = tx_offline_id
ExistingCount(rows, offline_id) ==
    Cardinality({i \in 1..Len(rows) : rows[i].offline_id = offline_id})

\* Amounts are counted in thousandths. The columns profiles.balance and
\* transactions.amount are NUMERIC(12, 2): a value stored in them is rounded
\* to hundredths, half away from zero. The PL/pgSQL variables are NUMERIC
\* and keep every digit.
Round2(x) ==
    IF x >= 0 THEN ((x + 5) \div 10) * 10 ELSE 0 - (((0 - x) + 5) \div 10) * 10

\* Mutant of InsertTransaction: the row is stored under the user_id the
\* entry carries.
InsertTransactionAsClaimed(st, user_uuid, tx) ==
    IF \E i \in 1..Len(st.ledger) : st.ledger[i].offline_id = tx.offline_id
    THEN [st EXCEPT !.raised = TRUE]
    ELSE [st EXCEPT !.ledger = Append(@, [user_id |-> tx.user_id,
                                          amount |-> Round2(tx.amount),
                                          type |-> tx.type,
                                          offline_id |-> tx.offline_id,
                                          signature |-> tx.signature])]

\* INSERT INTO transactions ...: offline_id is UNIQUE, a duplicate raises
\* unique_violation, which aborts the function.
InsertTransaction(st, user_uuid, tx) ==
    IF \E i \in 1..Len(st.ledger) : st.ledger[i].offline_id = tx.offline_id
    THEN [st EXCEPT !.raised = TRUE]
    ELSE [st EXCEPT !.ledger = Append(@, [user_id |-> user_uuid,
                                          amount |-> Round2(tx.amount),
                                          type |-> tx.type,
                                          offline_id |-> tx.offline_id,
                                          signature |-> tx.signature])]

\* Mutant of LoopBody: an idempotent replay is reported as processed but its
\* amount is applied to the running balance again.
LoopBodyReplayCharged(st, user_uuid, tx) ==
    IF st.raised THEN st
    ELSE IF ExistingCount(st.ledger, tx.offline_id) > 0
    THEN [st EXCEPT !.new_balance =
                        IF tx.type = "debit" THEN @ - tx.amount ELSE @ + tx.amount,
                    !.processed_ids = Append(@, tx.offline_id)]
    ELSE IF tx.signature = Null \/ tx.signature = ""
    THEN [st EXCEPT !.failed_ids = Append(@, [offline_id |-> tx.offline_id,
                                              reason |-> "Missing signature"])]
    ELSE IF tx.type = "debit" /\ st.new_balance < tx.amount
    THEN [st EXCEPT !.failed_ids = Append(@, [offline_id |-> tx.offline_id,
                                              reason |-> "Insufficient balance"])]
    ELSE LET moved == [st EXCEPT !.new_balance =
                          IF tx.type = "debit" THEN @ - tx.amount ELSE @ + tx.amount]
             stored == InsertTransaction(moved, user_uuid, tx)
         IN  IF stored.raised THEN stored
             ELSE [stored EXCEPT !.processed_ids = Append(@, tx.offline_id)]

\* Mutant of LoopBody: a debit rejected for insufficient balance is still
\* deducted from the running balance.
LoopBodyChargesRejected(st, user_uuid, tx) ==
    IF st.raised THEN st
    ELSE IF ExistingCount(st.ledger, tx.offline_id) > 0
    THEN [st EXCEPT !.processed_ids = Append(@, tx.offline_id)]
    ELSE IF tx.signature = Null \/ tx.signature = ""
    THEN [st EXCEPT !.failed_ids = Append(@, [offline_id |-> tx.offline_id,
                                              reason |-> "Missing signature"])]
    ELSE IF tx.type = "debit" /\ st.new_balance < tx.amount
    THEN [st EXCEPT !.new_balance = @ - tx.amount,
                    !.failed_ids = Append(@, [offline_id |-> tx.offline_id,
                                              reason |-> "Insufficient balance"])]
    ELSE LET moved == [st EXCEPT !.new_balance =
                          IF tx.type = "debit" THEN @ - tx.amount ELSE @ + tx.amount]
             stored == InsertTransaction(moved, user_uuid, tx)
         IN  IF stored.raised THEN stored
             ELSE [stored EXCEPT !.processed_ids = Append(@, tx.offline_id)]

\* Mutant of LoopBody: the signature is never looked at, so an entry without
\* one is admitted like a signed one.
LoopBodyUnsignedStored(st, user_uuid, tx) ==
    IF st.raised THEN st
    ELSE IF ExistingCount(st.ledger, tx.offline_id) > 0
    THEN [st EXCEPT !.processed_ids = Append(@, tx.offline_id)]
    ELSE IF tx.type = "debit" /\ st.new_balance < tx.amount
    THEN [st EXCEPT !.failed_ids = Append(@, [offline_id |-> tx.offline_id,
                                              reason |-> "Insufficient balance"])]
    ELSE LET moved == [st EXCEPT !.new_balance =
                          IF tx.type = "debit" THEN @ - tx.amount ELSE @ + tx.amount]
             stored == InsertTransaction(moved, user_uuid, tx)
         IN  IF stored.raised THEN stored
             ELSE [stored EXCEPT !.processed_ids = Append(@, tx.offline_id)]

\* Mutant of LoopBody: the balance check for debits is missing.
LoopBodyOverdraws(st, user_uuid, tx) ==
    IF st.raised THEN st
    ELSE IF ExistingCount(st.ledger, tx.offline_id) > 0
    THEN [st EXCEPT !.processed_ids = Append(@, tx.offline_id)]
    ELSE IF tx.signature = Null \/ tx.signature = ""
    THEN [st EXCEPT !.failed_ids = Append(@, [offline_id |-> tx.offline_id,
                                              reason |-> "Missing signature"])]
    ELSE LET moved == [st EXCEPT !.new_balance =
                          IF tx.type = "debit" THEN @ - tx.amount ELSE @ + tx.amount]
             stored == InsertTransaction(moved, user_uuid, tx)
         IN  IF stored.raised THEN stored
             ELSE [stored EXCEPT !.processed_ids = Append(@, tx.offline_id)]

\* Mutant of LoopBody: an entry whose offline_id is already stored is
\* reported as failed instead of processed.
LoopBodyReplayRejected(st, user_uuid, tx) ==
    IF st.raised THEN st
    ELSE IF ExistingCount(st.ledger, tx.offline_id) > 0
    THEN [st EXCEPT !.failed_ids = Append(@, [offline_id |-> tx.offline_id,
                                              reason |-> "Duplicate"])]
    ELSE IF tx.signature = Null \/ tx.signature = ""
    THEN [st EXCEPT !.failed_ids = Append(@, [offline_id |-> tx.offline_id,
                                              reason |-> "Missing signature"])]
    ELSE IF tx.type = "debit" /\ st.new_balance < tx.amount
    THEN [st EXCEPT !.failed_ids = Append(@, [offline_id |-> tx.offline_id,
                                              reason |-> "Insufficient balance"])]
    ELSE LET moved == [st EXCEPT !.new_balance =
                          IF tx.type = "debit" THEN @ - tx.amount ELSE @ + tx.amount]
             stored == InsertTransaction(moved, user_uuid, tx)
         IN  IF stored.raised THEN stored
             ELSE [stored EXCEPT !.processed_ids = Append(@, tx.offline_id)]

\* The body of the FOR loop, for one element tx of the payload.
LoopBody(st, user_uuid, tx) ==
    IF st.raised THEN st
    ELSE IF ExistingCount(st.ledger, tx.offline_id) > 0
    THEN [st EXCEPT !.processed_ids = Append(@, tx.offline_id)]
    ELSE IF tx.signature = Null \/ tx.signature = ""
    THEN [st EXCEPT !.failed_ids = Append(@, [offline_id |-> tx.offline_id,
                                              reason |-> "Missing signature"])]
    ELSE IF tx.type = "debit" /\ st.new_balance < tx.amount
    THEN [st EXCEPT !.failed_ids = Append(@, [offline_id |-> tx.offline_id,
                                              reason |-> "Insufficient balance"])]
    ELSE LET moved == [st EXCEPT !.new_balance =
                          IF tx.type = "debit" THEN @ - tx.amount ELSE @ + tx.amount]
             stored == InsertTransaction(moved, user_uuid, tx)
         IN  IF stored.raised THEN stored
             ELSE [stored EXCEPT !.processed_ids = Append(@, tx.offline_id)]

\* Mutant of BatchLoop: the credits of the payload are applied before its
\* debits.
RECURSIVE BatchLoopInOrder(_, _, _)
BatchLoopInOrder(st, user_uuid, payload) ==
    IF payload = <<>> THEN st
    ELSE BatchLoopInOrder(LoopBody(st, user_uuid, Head(payload)), user_uuid, Tail(payload))

BatchLoopCreditsFirst(st, user_uuid, payload) ==
    BatchLoopInOrder(st, user_uuid,
                     SelectSeq(payload, LAMBDA tx : tx.type = "credit")
                         \o SelectSeq(payload, LAMBDA tx : tx.type # "credit"))

\* FOR tx IN SELECT * FROM jsonb_array_elements(payload->'transactions') LOOP
RECURSIVE BatchLoop(_, _, _)
BatchLoop(st, user_uuid, payload) ==
    IF payload = <<>> THEN st
    ELSE BatchLoop(LoopBody(st, user_uuid, Head(payload)), user_uuid, Tail(payload))

\* The jsonb object an early RETURN builds.
ErrorResponse(msg) ==
    [error |-> msg, processed_ids |-> <<>>, failed_ids |-> <<>>, new_balance |-> 0]

\* Mutant of ProcessOfflineBatch: the check of auth.uid() is missing, so a
\* NULL user falls through to the profile lookup.
ProcessOfflineBatchNoAuthCheck(user_uuid, payload, profs, rows, clock) ==
    IF user_uuid \notin DOMAIN profs
    THEN [raised |-> FALSE, response |-> ErrorResponse("Profile not found"),
          profiles |-> profs, ledger |-> rows]
    ELSE LET st == BatchLoop([new_balance |-> profs[user_uuid].balance,
                              ledger |-> rows,
                              processed_ids |-> <<>>,
                              failed_ids |-> <<>>,
                              raised |-> FALSE], user_uuid, payload)
         IN  [raised |-> st.raised,
              response |-> [error |-> Null,
                            processed_ids |-> st.processed_ids,
                            failed_ids |-> st.failed_ids,
                            new_balance |-> st.new_balance],
              profiles |-> [profs EXCEPT ![user_uuid] =
                               [balance |-> Round2(st.new_balance), last_synced_at |-> clock]],
              ledger |-> st.ledger]

\* process_offline_batch(payload) called in a session whose auth.uid() is
\* user_uuid, against the tables profs and rows at time clock: the outcome
\* (a response, or raised = TRUE when the function aborted) and the tables
\* it leaves.
ProcessOfflineBatch(user_uuid, payload, profs, rows, clock) ==
    IF user_uuid = Null
    THEN [raised |-> FALSE, response |-> ErrorResponse("Not authenticated"),
          profiles |-> profs, ledger |-> rows]
    ELSE IF user_uuid \notin DOMAIN profs
    THEN [raised |-> FALSE, response |-> ErrorResponse("Profile not found"),
          profiles |-> profs, ledger |-> rows]
    ELSE LET st == BatchLoop([new_balance |-> profs[user_uuid].balance,
                              ledger |-> rows,
                              processed_ids |-> <<>>,
                              failed_ids |-> <<>>,
                              raised |-> FALSE], user_uuid, payload)
         IN  IF st.raised
             THEN [raised |-> TRUE, response |-> ErrorResponse("unique_violation"),
                   profiles |-> profs, ledger |-> rows]
             ELSE [raised |-> FALSE,
                   response |-> [error |-> Null,
                                 processed_ids |-> st.processed_ids,
                                 failed_ids |-> st.failed_ids,
                                 new_balance |-> st.new_balance],
                   profiles |-> [profs EXCEPT ![user_uuid] =
                                    [balance |-> Round2(st.new_balance), last_synced_at |-> clock]],
                   ledger |-> st.ledger]

\* What the model remembers of one call.
CallRecord(user_uuid, payload, out) ==
    [caller |-> user_uuid,
     payload |-> payload,
     raised |-> out.raised,
     response |-> out.response,
     balance_before |-> IF user_uuid \in DOMAIN profiles
                        THEN profiles[user_uuid].balance ELSE 0,
     inserted |-> SubSeq(out.ledger, Len(ledger) + 1, Len(out.ledger))]

\* One serial execution of the RPC: the function body runs as one
\* transaction and commits.
ServerCall(user_uuid, payload, out) ==
    /\ now < MaxClock
    /\ now' = now + 1
    /\ profiles' = out.profiles
    /\ ledger' = out.ledger
    /\ calls' = LastTwo(Append(calls, CallRecord(user_uuid, payload, out)))
    /\ UNCHANGED <<inflight, origin, payment_requests>>

\* ------------------------------------------------ concurrent RPC calls

\* Database connections that run process_offline_batch at the same time.
Connections == {"c1", "c2"}

NoTransaction ==
    [pc |-> "idle", caller |-> Null, payload |-> <<>>, new_balance |-> 0,
     inserted |-> <<>>]

\* --------------------------------------------------------------- device

\* The wallet row the device holds after first use: seeded from the
\* authoritative balance, with no pending aggregates yet.
\* An optional number is <<>> (undefined) or <<n>>. Nothing writes
\* last_sync_success.
SeedWallet(balance) ==
    <<[id |-> DeviceUser, cached_balance |-> balance, shadow_balance |-> balance,
       pending_debits |-> <<>>, pending_credits |-> <<>>,
       last_sync_success |-> <<>>]>>

\* ------------------------------------------------- the voice assistant

\* createContext(); messageHistory is kept as its length.
CreateContext ==
    [state |-> "idle", intent |-> Null, amount |-> <<>>, description |-> Null,
     transactionType |-> Null, messageHistory |-> 0]

\* addMessage(context, role, content)
AddMessage(context) == [context EXCEPT !.messageHistory = @ + 1]

\* updateState(context, state)
UpdateState(context, state) == [context EXCEPT !.state = state]

\* resetContext(context): a new context with the last 5 messages.
ResetContext(context) ==
    [CreateContext EXCEPT !.messageHistory =
        IF context.messageHistory > 5 THEN 5 ELSE context.messageHistory]

\* Mutant of HasCompleteTransactionData: the description is not looked at.
HasCompleteTransactionDataNoDescription(context) ==
    /\ context.amount # <<>>
    /\ context.amount[1] > 0
    /\ context.transactionType # Null

\* hasCompleteTransactionData(context)
HasCompleteTransactionData(context) ==
    /\ context.amount # <<>>
    /\ context.amount[1] > 0
    /\ context.description # Null
    /\ context.transactionType # Null

\* getNextState(context)
GetNextState(context) ==
    IF HasCompleteTransactionData(context) THEN "confirming"
    ELSE IF context.intent \in {"payment", "receive"} /\ context.amount = <<>>
    THEN "awaiting_amount"
    ELSE IF context.amount # <<>> /\ context.description = Null
    THEN "awaiting_description"
    ELSE context.state

\* The component after its first render: useState(createContext()),
\* useState(null) for lastCommand, useRef(false) for isExecutingRef. effect
\* says that a dependency of the effect that calls executeTransaction has
\* changed since the effect last ran; promise, that onTransaction has been
\* called and has not settled; timer, which setTimeout callback is pending;
\* queries, how many queryBalance or queryTransactions calls have not
\* answered yet; invoked, how often onTransaction was called for
\* lastCommand; heard, the last input of processText.
InitialVoice ==
    [context |-> CreateContext, lastCommand |-> <<>>, isExecutingRef |-> FALSE,
     effect |-> FALSE, promise |-> FALSE, timer |-> "none", queries |-> 0,
     invoked |-> 0, heard |-> [intent |-> Null, at |-> 0]]

InitDevice ==
    /\ voice = InitialVoice
    /\ transactions = {}
    /\ nextId = 1
    /\ created = <<>>
    /\ syncPc = "idle"
    /\ syncBatch = <<>>
    /\ syncResp = <<>>
    /\ syncReturn = <<>>

InitServer ==
    /\ \E b \in InitBalances :
          /\ profiles = [u \in {DeviceUser, OtherUser} |->
                            [balance |-> IF u = DeviceUser THEN b ELSE 100,
                             last_synced_at |-> 0]]
          /\ wallet = SeedWallet(b)
    /\ origin = profiles
    /\ ledger = <<>>
    /\ now = 0
    /\ calls = <<>>
    /\ inflight = [p \in Connections |-> NoTransaction]
    /\ payment_requests = <<>>

\* ------------------------------------------------------- db.ts (Dexie)

\* offline_id of the n-th transaction the device creates (a fresh UUID v4).
DeviceOfflineIds == <<"a", "b", "c", "d">>
\* Amounts the device records.
LocalAmounts == {100}

\* toArray() over the user_id index: rows of one user come in primary-key
\* (++id) order.
RECURSIVE InKeyOrder(_)
InKeyOrder(rows) ==
    IF rows = {} THEN <<>>
    ELSE LET first == CHOOSE r \in rows : \A q \in rows : r.id <= q.id
         IN  <<first>> \o InKeyOrder(rows \ {first})

\* Mutant of GetPendingTransactions: the rows come newest first.
RECURSIVE InReverseKeyOrder(_)
InReverseKeyOrder(rows) ==
    IF rows = {} THEN <<>>
    ELSE LET last == CHOOSE r \in rows : \A q \in rows : r.id >= q.id
         IN  <<last>> \o InReverseKeyOrder(rows \ {last})

GetPendingTransactionsReversed(userId) ==
    InReverseKeyOrder({tx \in transactions : tx.user_id = userId /\ tx.sync_status = "pending"})

\* getPendingTransactions(userId)
GetPendingTransactions(userId) ==
    InKeyOrder({tx \in transactions : tx.user_id = userId /\ tx.sync_status = "pending"})

\* Mutant of MarkTransactionsSynced: every pending row is marked, listed or
\* not.
MarkTransactionsSyncedAll(offlineIds) ==
    {IF tx.sync_status = "pending"
     THEN [tx EXCEPT !.sync_status = "synced"] ELSE tx : tx \in transactions}

\* markTransactionsSynced(offlineIds): the table after the modify.
MarkTransactionsSynced(offlineIds) ==
    {IF \E i \in 1..Len(offlineIds) : offlineIds[i] = tx.offline_id
     THEN [tx EXCEPT !.sync_status = "synced"] ELSE tx : tx \in transactions}

\* addOfflineTransaction(tx): the row gets the next ++id. timestamp is the
\* device clock at creation, which moves on with every creation.
AddOfflineTransaction(type, amount) ==
    /\ nextId <= MaxTx
    /\ transactions' = transactions \cup
          {[id |-> nextId,
            offline_id |-> DeviceOfflineIds[nextId],
            user_id |-> DeviceUser,
            amount |-> amount,
            type |-> type,
            signature |-> "sig",
            timestamp |-> nextId,
            sync_status |-> "pending",
            retry_count |-> 0]}
    /\ nextId' = nextId + 1
    /\ created' = Append(created, DeviceOfflineIds[nextId])
    /\ UNCHANGED <<serverVars, voice, request, wallet, configured,
                   syncPc, syncBatch, syncResp, syncReturn>>

\* Mutant of UpdateWalletPendingAmounts: the aggregates are stored but the
\* shadow balance is not recomputed.
UpdateWalletPendingAmountsStaleShadow ==
    LET pendingTxs == GetPendingTransactions(DeviceUser)
        rows == [i \in 1..Len(pendingTxs) |-> pendingTxs[i]]
        pending_debits == AmountsOf(rows, "debit")
        pending_credits == AmountsOf(rows, "credit")
    IN  /\ wallet' = IF wallet # <<>>
                      THEN <<[wallet[1] EXCEPT
                                 !.pending_debits = <<pending_debits>>,
                                 !.pending_credits = <<pending_credits>>]>>
                      ELSE wallet
        /\ UNCHANGED <<serverVars, voice, request, transactions, nextId, created, configured, syncPc, syncBatch, syncResp, syncReturn>>

\* updateWalletPendingAmounts(userId)
UpdateWalletPendingAmounts ==
    LET pendingTxs == GetPendingTransactions(DeviceUser)
        rows == [i \in 1..Len(pendingTxs) |-> pendingTxs[i]]
        pending_debits == AmountsOf(rows, "debit")
        pending_credits == AmountsOf(rows, "credit")
    IN  /\ wallet' = IF wallet # <<>>
                      THEN <<[wallet[1] EXCEPT
                                 !.pending_debits = <<pending_debits>>,
                                 !.pending_credits = <<pending_credits>>,
                                 !.shadow_balance = wallet[1].cached_balance
                                                       - pending_debits + pending_credits]>>
                      ELSE wallet
        /\ UNCHANGED <<serverVars, voice, request, transactions, nextId, created, configured, syncPc, syncBatch, syncResp, syncReturn>>

\* checkWalletStaleness(userId), Date.now() being dateNow; times are in
\* hours. A last_sync_success of 0 is falsy, as a missing one is.
CheckWalletStaleness(w, dateNow) ==
    IF w = <<>> \/ w[1].last_sync_success = <<>> \/ w[1].last_sync_success = <<0>>
    THEN TRUE
    ELSE dateNow - w[1].last_sync_success[1] > 24

\* --------------------------------------------- syncOfflineTransactions

\* JSON body of one pending row as the server reads it.
PayloadEntry(tx) ==
    [offline_id |-> tx.offline_id, amount |-> tx.amount, type |-> tx.type,
     signature |-> tx.signature]

PayloadOf(pending) == [i \in 1..Len(pending) |-> PayloadEntry(pending[i])]

\* Mutant of CatchSyncError: the catch block marks the batch failed.
CatchSyncErrorMarksFailed ==
    /\ syncPc' = "idle"
    /\ syncReturn' = <<"null">>
    /\ transactions' =
          {IF \E i \in 1..Len(syncBatch) : syncBatch[i].offline_id = tx.offline_id
           THEN [tx EXCEPT !.sync_status = "failed", !.retry_count = @ + 1]
           ELSE tx : tx \in transactions}
    /\ UNCHANGED <<wallet, nextId, created, configured,
                   syncBatch, syncResp>>

\* catch (err) { return null; }
CatchSyncError ==
    /\ syncPc' = "idle"
    /\ syncReturn' = <<"null">>
    /\ UNCHANGED <<transactions, wallet, nextId, created, configured,
                   syncBatch, syncResp>>

\* The call returns null at once: the device is offline or Supabase is not
\* configured.
SyncSkipped ==
    /\ syncPc = "idle"
    /\ \E onLine \in BOOLEAN : ~onLine \/ ~configured
    /\ syncReturn' = <<"null">>
    /\ UNCHANGED <<serverVars, voice, request, transactions, wallet, nextId, created, configured, syncPc, syncBatch, syncResp>>

\* Mutant of SyncNothingPending: the empty result is also applied to the
\* wallet, as a response is.
SyncNothingPendingResetsWallet ==
    /\ syncPc = "idle"
    /\ \E onLine \in BOOLEAN : onLine /\ configured
    /\ GetPendingTransactions(DeviceUser) = <<>>
    /\ syncReturn' = <<"response", [processed_ids |-> <<>>, failed_ids |-> <<>>,
                                    new_balance |-> 0]>>
    /\ wallet' = <<[id |-> DeviceUser, cached_balance |-> 0, shadow_balance |-> 0,
                    pending_debits |-> <<>>, pending_credits |-> <<>>,
                    last_sync_success |-> <<>>]>>
    /\ UNCHANGED <<serverVars, voice, request, transactions, nextId, created, configured, syncPc, syncBatch, syncResp>>

\* No pending transaction: the call returns an empty result.
SyncNothingPending ==
    /\ syncPc = "idle"
    /\ \E onLine \in BOOLEAN : onLine /\ configured
    /\ GetPendingTransactions(DeviceUser) = <<>>
    /\ syncReturn' = <<"response", [processed_ids |-> <<>>, failed_ids |-> <<>>,
                                    new_balance |-> 0]>>
    /\ UNCHANGED <<serverVars, voice, request, transactions, wallet, nextId, created, configured, syncPc, syncBatch, syncResp>>

\* The pending rows are read and the RPC request is sent.
SyncCollect ==
    /\ syncPc = "idle"
    /\ \E onLine \in BOOLEAN : onLine /\ configured
    /\ GetPendingTransactions(DeviceUser) # <<>>
    /\ syncBatch' = GetPendingTransactions(DeviceUser)
    /\ request' = PayloadOf(GetPendingTransactions(DeviceUser))
    /\ syncPc' = "rpc"
    /\ UNCHANGED <<serverVars, voice, transactions, wallet, nextId, created, configured, syncResp, syncReturn>>

\* The request never reaches the server: supabase.rpc reports an error.
SyncTransportError ==
    /\ syncPc = "rpc"
    /\ CatchSyncError
    /\ UNCHANGED <<serverVars, voice, request>>

\* auth.uid() the device's Supabase session yields when a request arrives:
\* the signed-in user, or NULL once the session has expired.
Sessions == {DeviceUser, Null}

\* The server runs the batch and commits, but the response is lost on the
\* way back: supabase.rpc reports an error.
SyncResponseLost(uid) ==
    /\ syncPc = "rpc"
    /\ ServerCall(uid, PayloadOf(syncBatch),
                  ProcessOfflineBatch(uid, PayloadOf(syncBatch), profiles, ledger, now + 1))
    /\ CatchSyncError
    /\ UNCHANGED <<request, voice>>

\* The server runs the batch and its response arrives (an aborted function
\* arrives as an error and is thrown).
SyncRpc(uid) ==
    /\ syncPc = "rpc"
    /\ LET out == ProcessOfflineBatch(uid, PayloadOf(syncBatch), profiles, ledger, now + 1)
       IN  /\ ServerCall(uid, PayloadOf(syncBatch), out)
           /\ IF out.raised
              THEN CatchSyncError
              ELSE /\ syncResp' = <<out.response>>
                   /\ syncPc' = "mark"
                   /\ UNCHANGED <<transactions, wallet, nextId, created, configured, syncBatch, syncReturn>>
    /\ UNCHANGED <<request, voice>>

\* if (response.processed_ids.length > 0) await markTransactionsSynced(...)
SyncMark ==
    /\ syncPc = "mark"
    /\ transactions' = IF Len(syncResp[1].processed_ids) > 0
                       THEN MarkTransactionsSynced(syncResp[1].processed_ids)
                       ELSE transactions
    /\ syncPc' = "wallet"
    /\ UNCHANGED <<serverVars, voice, request, wallet, nextId, created, configured, syncBatch, syncResp, syncReturn>>

\* Mutant of SyncWallet: the shadow balance is not reset to the new balance.
SyncWalletKeepsShadow ==
    /\ syncPc = "wallet"
    /\ wallet' = IF "new_balance" \in DOMAIN syncResp[1]
                 THEN <<[id |-> DeviceUser,
                         cached_balance |-> syncResp[1].new_balance,
                         shadow_balance |-> IF wallet # <<>> THEN wallet[1].shadow_balance
                                            ELSE syncResp[1].new_balance,
                         pending_debits |-> <<>>,
                         pending_credits |-> <<>>,
                         last_sync_success |-> <<>>]>>
                 ELSE wallet
    /\ syncReturn' = <<"response", syncResp[1]>>
    /\ syncPc' = "idle"
    /\ UNCHANGED <<serverVars, voice, request, transactions, nextId, created, configured, syncBatch, syncResp>>

\* if (response.new_balance !== undefined) await updateWalletState(...);
\* return response. db.wallet.put replaces the whole row.
SyncWallet ==
    /\ syncPc = "wallet"
    /\ wallet' = IF "new_balance" \in DOMAIN syncResp[1]
                 THEN <<[id |-> DeviceUser,
                         cached_balance |-> syncResp[1].new_balance,
                         shadow_balance |-> syncResp[1].new_balance,
                         pending_debits |-> <<>>,
                         pending_credits |-> <<>>,
                         last_sync_success |-> <<>>]>>
                 ELSE wallet
    /\ syncReturn' = <<"response", syncResp[1]>>
    /\ syncPc' = "idle"
    /\ UNCHANGED <<serverVars, voice, request, transactions, nextId, created, configured, syncBatch, syncResp>>

\* ------------------------------------------------------ a second sender

\* The captured request of the last sync is sent again in the user's session
\* (a second device, or a replay of the request).
ReplayRequest ==
    /\ request # <<>>
    /\ ServerCall(DeviceUser, request,
                  ProcessOfflineBatch(DeviceUser, request, profiles, ledger, now + 1))
    /\ UNCHANGED <<request, deviceVars>>

\* Amounts an attacker writes into an intercepted request.
TamperedAmounts == {50}

\* The request of the last sync is intercepted, the amount of every entry is
\* modified while its signature is kept, and the request is sent in the
\* user's session (README, "Test 4: Tampered Request").
TamperedRequest(amount) ==
    /\ request # <<>>
    /\ LET tampered == [i \in 1..Len(request) |-> [request[i] EXCEPT !.amount = amount]]
       IN  ServerCall(DeviceUser, tampered,
                      ProcessOfflineBatch(DeviceUser, tampered, profiles, ledger, now + 1))
    /\ UNCHANGED <<request, deviceVars>>

Init ==
    /\ InitServer
    /\ InitDevice
    /\ configured \in BOOLEAN
    /\ request = <<>>

Next ==
    \/ \E type \in TxTypes, amount \in LocalAmounts : AddOfflineTransaction(type, amount)
    \/ UpdateWalletPendingAmounts
    \/ SyncSkipped
    \/ SyncNothingPending
    \/ SyncCollect
    \/ SyncTransportError
    \/ \E uid \in Sessions : SyncResponseLost(uid)
    \/ \E uid \in Sessions : SyncRpc(uid)
    \/ SyncMark
    \/ SyncWallet
    \/ ReplayRequest

Spec == Init /\ [][Next]_vars

\* ------------------------------------- process_offline_batch, concurrent

\* Batches two devices of one user submit at the same time.
ConcurrentEntries == [offline_id : OfflineIds, amount : {50}, type : TxTypes, signature : {"sig"}]
ConcurrentPayloads == SeqsUpTo(ConcurrentEntries, MaxBatch)

\* A connection starts the function under READ COMMITTED: SELECT balance
\* takes no lock, and the loop runs against the committed rows; the rows it
\* inserts stay invisible to the other connection until it commits.
BeginBatch(c, payload) ==
    /\ inflight[c].pc = "idle"
    /\ LET st == BatchLoop([new_balance |-> profiles[DeviceUser].balance,
                            ledger |-> ledger,
                            processed_ids |-> <<>>,
                            failed_ids |-> <<>>,
                            raised |-> FALSE], DeviceUser, payload)
       IN  inflight' = [inflight EXCEPT ![c] =
                           [pc |-> "updating", caller |-> DeviceUser, payload |-> payload,
                            new_balance |-> st.new_balance,
                            inserted |-> SubSeq(st.ledger, Len(ledger) + 1, Len(st.ledger))]]
    /\ UNCHANGED <<profiles, ledger, now, calls, origin, payment_requests, request, deviceVars>>

\* Mutant of CommitBatch: a call that hits unique_violation keeps the rows it
\* inserted before the failing one.
CommitBatchPartial(c) ==
    /\ inflight[c].pc = "updating"
    /\ now < MaxClock
    /\ now' = now + 1
    /\ IF \E i \in 1..Len(inflight[c].inserted), j \in 1..Len(ledger) :
             inflight[c].inserted[i].offline_id = ledger[j].offline_id
       THEN /\ ledger' = ledger \o SelectSeq(inflight[c].inserted,
                                LAMBDA row : \A j \in 1..Len(ledger) :
                                                row.offline_id # ledger[j].offline_id)
            /\ UNCHANGED profiles
       ELSE /\ ledger' = ledger \o inflight[c].inserted
            /\ profiles' = [profiles EXCEPT ![DeviceUser] =
                               [balance |-> Round2(inflight[c].new_balance),
                                last_synced_at |-> now + 1]]
    /\ inflight' = [inflight EXCEPT ![c].pc = "done"]
    /\ UNCHANGED <<calls, origin, payment_requests, request, deviceVars>>

\* The connection reaches the end of the function and commits: an inserted
\* offline_id that the other connection committed meanwhile raises
\* unique_violation and rolls the call back; otherwise UPDATE profiles writes
\* the new_balance computed from the balance read at the start.
CommitBatch(c) ==
    /\ inflight[c].pc = "updating"
    /\ now < MaxClock
    /\ now' = now + 1
    /\ IF \E i \in 1..Len(inflight[c].inserted), j \in 1..Len(ledger) :
             inflight[c].inserted[i].offline_id = ledger[j].offline_id
       THEN UNCHANGED <<profiles, ledger>>
       ELSE /\ ledger' = ledger \o inflight[c].inserted
            /\ profiles' = [profiles EXCEPT ![DeviceUser] =
                               [balance |-> Round2(inflight[c].new_balance),
                                last_synced_at |-> now + 1]]
    /\ inflight' = [inflight EXCEPT ![c].pc = "done"]
    /\ UNCHANGED <<calls, origin, payment_requests, request, deviceVars>>

InitConcurrent ==
    /\ InitServer
    /\ InitDevice
    /\ configured = TRUE
    /\ request = <<>>

NextConcurrent ==
    \/ \E c \in Connections, payload \in ConcurrentPayloads : BeginBatch(c, payload)
    \/ \E c \in Connections : CommitBatch(c)

SpecConcurrent == InitConcurrent /\ [][NextConcurrent]_vars

\* ------------------------------------------------- replayed raw requests

\* A request body captured off the wire (README, "Test 2: Replay Attack"),
\* or crafted by a compromised client.
InitReplay ==
    /\ InitServer
    /\ InitDevice
    /\ configured = TRUE
    /\ request \in Payloads

\* The captured request is submitted (again) in the session of caller.
SubmitRequest(caller) ==
    /\ now < MaxSubmits
    /\ ServerCall(caller, request, ProcessOfflineBatch(caller, request, profiles, ledger, now + 1))
    /\ UNCHANGED <<request, deviceVars>>

NextReplay == \E caller \in Callers : SubmitRequest(caller)

SpecReplay == InitReplay /\ [][NextReplay]_vars


\* ------------------------------------------------ claims on SpecReplay

LastCall == calls[Len(calls)]

\* A call that was not rejected as a whole: it returned a response that
\* carries no error.
Accepted(c) == ~c.raised /\ c.response.error = Null

\* Both of the last two calls submitted the same batch in the same session.
Resubmitted ==
    /\ Len(calls) = 2
    /\ calls[1].caller = calls[2].caller
    /\ calls[1].payload = calls[2].payload

\* The second submission repeats the first one's balance, stores nothing and
\* reports every entry as processed.
SecondIsReplay ==
    /\ Accepted(calls[2])
    /\ calls[2].response.new_balance = calls[1].response.new_balance
    /\ calls[2].inserted = <<>>
    /\ calls[2].response.processed_ids = OfflineIdsOf(calls[2].payload)

C3_NoOverdraft == \A u \in DOMAIN profiles : profiles[u].balance >= 0

\* C6: [debit 100, credit 100] on starting balance 50 rejects the debit with
\* reason insufficient balance, accepts the credit and returns 150;
\* [credit 100, debit 100] on the same balance accepts both and returns 50.
Signed(id, t, amt) == [offline_id |-> id, amount |-> amt, type |-> t, signature |-> "sig"]

C6_OrderSensitivity ==
    \A x, y \in OfflineIds :
        (/\ x # y
         /\ Len(calls) = 1
         /\ LastCall.caller = DeviceUser
         /\ LastCall.balance_before = 50) =>
            /\ LastCall.payload = <<Signed(x, "debit", 100), Signed(y, "credit", 100)>> =>
                  /\ Accepted(LastCall)
                  /\ LastCall.response.failed_ids =
                        <<[offline_id |-> x, reason |-> "Insufficient balance"]>>
                  /\ LastCall.response.processed_ids = <<y>>
                  /\ OfflineIdsOf(LastCall.inserted) = <<y>>
                  /\ LastCall.response.new_balance = 150
            /\ LastCall.payload = <<Signed(x, "credit", 100), Signed(y, "debit", 100)>> =>
                  /\ Accepted(LastCall)
                  /\ LastCall.response.failed_ids = <<>>
                  /\ LastCall.response.processed_ids = <<x, y>>
                  /\ OfflineIdsOf(LastCall.inserted) = <<x, y>>
                  /\ LastCall.response.new_balance = 50

C6_Witness ==
    /\ Len(calls) = 1
    /\ LastCall.caller = DeviceUser
    /\ LastCall.balance_before = 50
    /\ LastCall.payload = <<Signed("a", "debit", 100), Signed("b", "credit", 100)>>
    /\ LastCall.response.new_balance = 150

\* C8: a call without an authenticated user, or for a user with no profile,
\* returns an error with empty processed and failed lists, inserts no ledger
\* entry and changes no profile balance or last_synced_at.
C8_SystemicRejection ==
    [][(now' = now + 1 /\ calls'[Len(calls')].caller \in {Null, GhostUser}) =>
          /\ ~calls'[Len(calls')].raised
          /\ calls'[Len(calls')].response =
                ErrorResponse(IF calls'[Len(calls')].caller = Null
                              THEN "Not authenticated" ELSE "Profile not found")
          /\ ledger' = ledger
          /\ profiles' = profiles]_vars

C8_Witness ==
    /\ Len(calls) = 2
    /\ Accepted(calls[1])
    /\ calls[1].inserted # <<>>
    /\ calls[2].caller = GhostUser
    /\ calls[2].response.error = "Profile not found"
    /\ Len(calls[2].payload) = 2

\* ------------------------------------------ claims on SpecConcurrent

\* The balance and the rows that running the two batches one after the other
\* (first, then second) leaves, starting from the tables at the start.
SerialOutcome(first, second) ==
    LET one == ProcessOfflineBatch(DeviceUser, inflight[first].payload, origin, <<>>, 1)
        two == ProcessOfflineBatch(DeviceUser, inflight[second].payload,
                                   one.profiles, one.ledger, 2)
    IN  [balance |-> two.profiles[DeviceUser].balance, ledger |-> two.ledger]

\* C4: when two calls for the same user run concurrently, the resulting
\* balance and ledger equal those of some serial execution of the two calls.
C4_Serialization ==
    (\A c \in Connections : inflight[c].pc = "done") =>
        \E first, second \in Connections :
            /\ first # second
            /\ profiles[DeviceUser].balance = SerialOutcome(first, second).balance
            /\ ledger = SerialOutcome(first, second).ledger

\* ------------------------------------------------------ claims on Spec

RowIds(rows) == {rows[i].offline_id : i \in 1..Len(rows)}

\* The rows a step appended to the ledger.
Appended == SubSeq(ledger', Len(ledger) + 1, Len(ledger'))

\* C5: however often a transaction is submitted (a resubmission after a lost
\* response, a second sender with an overlapping batch), each offline_id is
\* stored in the ledger at most once and changes the balance at most once:
\* every step only appends rows whose offline_id is new, and moves each
\* balance by exactly the amounts of the rows it appends.
C5_AtMostOnce ==
    [][/\ Len(ledger') >= Len(ledger)
       /\ SubSeq(ledger', 1, Len(ledger)) = ledger
       /\ RowIds(Appended) \cap RowIds(ledger) = {}
       /\ Cardinality(RowIds(Appended)) = Len(Appended)
       /\ \A u \in DOMAIN profiles :
             profiles'[u].balance - profiles[u].balance =
                 LET mine == SelectSeq(Appended, LAMBDA r : r.user_id = u)
                 IN  AmountsOf(mine, "credit") - AmountsOf(mine, "debit")]_vars

\* The device resubmits a batch the server had already committed, and the
\* server answers that it is processed without storing anything.
C5_Witness ==
    /\ Len(calls) = 2
    /\ calls[1].payload = calls[2].payload
    /\ calls[1].inserted # <<>>
    /\ calls[2].inserted = <<>>
    /\ syncPc = "mark"
    /\ syncResp[1] = calls[2].response
    /\ syncResp[1].processed_ids # <<>>
    /\ profiles[DeviceUser].balance = calls[1].response.new_balance

\* The offline_ids in seq whose local row is pending, in the order of seq.
PendingAmong(seq) ==
    SelectSeq(seq, LAMBDA id : \E tx \in transactions :
                                   tx.offline_id = id /\ tx.sync_status = "pending")

\* The elements of seq that are in set, in the order of seq.
Restricted(seq, set) == SelectSeq(seq, LAMBDA id : id \in set)

FailedIds(response) == [i \in 1..Len(response.failed_ids) |-> response.failed_ids[i].offline_id]

\* C7: the batch syncOfflineTransactions sends holds the pending transactions
\* in creation order, and process_offline_batch handles the entries in the
\* order received: its processed ids, its rejected ids and the rows it
\* stores each follow the order of the batch.
C7_OrderPreserved ==
    [][/\ (syncPc = "idle" /\ syncPc' = "rpc") =>
             /\ OfflineIdsOf(syncBatch') = PendingAmong(created)
             /\ request' = PayloadOf(syncBatch')
       /\ (now' = now + 1 /\ ~calls'[Len(calls')].raised) =>
             LET c == calls'[Len(calls')]
                 sent == OfflineIdsOf(c.payload)
             IN  /\ c.payload = request
                 /\ c.response.processed_ids =
                       Restricted(sent, {c.response.processed_ids[i] :
                                            i \in 1..Len(c.response.processed_ids)})
                 /\ FailedIds(c.response) =
                       Restricted(sent, {FailedIds(c.response)[i] :
                                            i \in 1..Len(c.response.failed_ids)})
                 /\ OfflineIdsOf(c.inserted) = Restricted(sent, RowIds(c.inserted))]_vars

\* A debit created before a credit is sent before it and is rejected, while
\* the credit is admitted.
C7_Witness ==
    /\ syncPc = "mark"
    /\ created = <<"a", "b">>
    /\ OfflineIdsOf(syncBatch) = <<"a", "b">>
    /\ syncBatch[1].type = "debit"
    /\ syncBatch[2].type = "credit"
    /\ FailedIds(syncResp[1]) = <<"a">>
    /\ syncResp[1].processed_ids = <<"b">>

\* C9: when the response carries only error metadata, syncOfflineTransactions
\* advances no transaction to synced or failed and leaves the local wallet
\* state unchanged.
C9_ErrorOnlyResponse ==
    [][(syncPc \in {"mark", "wallet"} /\ syncPc' # syncPc /\ syncResp[1].error # Null) =>
          /\ transactions' = transactions
          /\ wallet' = wallet]_vars

\* C10: a sync attempt that is skipped, or that fails at transport level,
\* leaves every transaction and the wallet as they were and returns null.
C10_FailedAttemptNoMutation ==
    [][/\ (syncPc = "idle" /\ syncPc' = "rpc") =>
             /\ transactions' = transactions
             /\ wallet' = wallet
       /\ (syncPc = "rpc" /\ syncPc' = "idle") =>
             /\ transactions' = transactions
             /\ wallet' = wallet
             /\ syncReturn' = <<"null">>
       /\ (syncPc = "idle" /\ syncPc' = "idle" /\ syncReturn' # syncReturn
              /\ syncReturn' = <<"null">>) =>
             /\ transactions' = transactions
             /\ wallet' = wallet]_vars

\* A batch was sent, the server never ran it, and the call returned null with
\* the rows still pending.
C10_Witness ==
    /\ syncPc = "idle"
    /\ syncReturn = <<"null">>
    /\ request # <<>>
    /\ now = 0
    /\ Len(syncBatch) = 2
    /\ \A tx \in transactions : tx.sync_status = "pending"
    /\ wallet[1].shadow_balance # wallet[1].cached_balance


\* ------------------------------- per-entry rejections (SpecReplay)

\* The tables as the last call found them.
LedgerBefore(c) == SubSeq(ledger, 1, Len(ledger) - Len(c.inserted))
ProfilesBefore(c) == [profiles EXCEPT ![c.caller].balance = c.balance_before]

\* What the call c would have been with another payload.
OutcomeOf(c, payload) ==
    ProcessOfflineBatch(c.caller, payload, ProfilesBefore(c), LedgerBefore(c), now)

Without(s, i) == SubSeq(s, 1, i - 1) \o SubSeq(s, i + 1, Len(s))
InsertAt(s, k, e) == SubSeq(s, 1, k - 1) \o <<e>> \o SubSeq(s, k, Len(s))

\* Entry i of the call c reaches the checks: its offline_id is not stored when
\* the loop comes to it (neither before the call nor by an earlier entry).
NotYetStored(c, i) ==
    ExistingCount(OutcomeOf(c, SubSeq(c.payload, 1, i - 1)).ledger,
                  c.payload[i].offline_id) = 0

\* The running balance when the loop comes to entry i of the call c.
RunningBalance(c, i) == OutcomeOf(c, SubSeq(c.payload, 1, i - 1)).response.new_balance

\* Entry i of the call c is reported in failed_ids with the reason, at its
\* place among the rejections, and apart from that the call went as it would
\* have gone without the entry: the same rows inserted, the same
\* processed_ids, the same new_balance, the other rejections the same.
RejectedAlone(c, i, reason) ==
    LET before == OutcomeOf(c, SubSeq(c.payload, 1, i - 1))
        rest == OutcomeOf(c, Without(c.payload, i))
    IN  /\ c.response.failed_ids =
              InsertAt(rest.response.failed_ids, Len(before.response.failed_ids) + 1,
                       [offline_id |-> c.payload[i].offline_id, reason |-> reason])
        /\ c.response.processed_ids = rest.response.processed_ids
        /\ c.response.new_balance = rest.response.new_balance
        /\ c.inserted = SubSeq(rest.ledger, Len(LedgerBefore(c)) + 1, Len(rest.ledger))
        /\ profiles[c.caller].balance = rest.response.new_balance

Unsigned(tx) == tx.signature = Null \/ tx.signature = ""

\* C11: an entry whose offline_id is not yet stored and whose signature is
\* null or empty is reported in failed_ids with reason 'Missing signature',
\* is not inserted, leaves the running balance unchanged and does not stop
\* the remaining entries of the batch from being processed.
C11_MissingSignature ==
    (calls # <<>> /\ Accepted(LastCall)) =>
        /\ \A i \in 1..Len(LastCall.payload) :
              (Unsigned(LastCall.payload[i]) /\ NotYetStored(LastCall, i)) =>
                  RejectedAlone(LastCall, i, "Missing signature")
        /\ \A k \in 1..Len(LastCall.inserted) : ~Unsigned(LastCall.inserted[k])
        /\ Len(LastCall.response.processed_ids) + Len(LastCall.response.failed_ids)
              = Len(LastCall.payload)

C11_Witness ==
    /\ calls # <<>>
    /\ Accepted(LastCall)
    /\ Len(LastCall.payload) = 2
    /\ LastCall.payload[1].signature = ""
    /\ LastCall.payload[1].type = "credit"
    /\ NotYetStored(LastCall, 1)
    /\ LastCall.payload[2] = Signed("b", "credit", 100)
    /\ LastCall.response.failed_ids =
          <<[offline_id |-> LastCall.payload[1].offline_id, reason |-> "Missing signature"]>>
    /\ OfflineIdsOf(LastCall.inserted) = <<"b">>
    /\ LastCall.response.new_balance = LastCall.balance_before + 100

\* C12: a new, signed debit whose amount exceeds the running balance is
\* reported in failed_ids with reason 'Insufficient balance', is not
\* inserted, leaves the running balance unchanged, and the later entries of
\* the batch are evaluated against that unchanged running balance.
C12_InsufficientBalance ==
    (calls # <<>> /\ Accepted(LastCall)) =>
        \A i \in 1..Len(LastCall.payload) :
            (/\ ~Unsigned(LastCall.payload[i])
             /\ LastCall.payload[i].type = "debit"
             /\ NotYetStored(LastCall, i)
             /\ LastCall.payload[i].amount > RunningBalance(LastCall, i)) =>
                 RejectedAlone(LastCall, i, "Insufficient balance")

C12_Witness ==
    /\ calls # <<>>
    /\ Accepted(LastCall)
    /\ LastCall.balance_before = 0
    /\ LastCall.payload = <<Signed("a", "debit", 100), Signed("b", "credit", 100)>>
    /\ LedgerBefore(LastCall) = <<>>
    /\ LastCall.response.failed_ids =
          <<[offline_id |-> "a", reason |-> "Insufficient balance"]>>
    /\ OfflineIdsOf(LastCall.inserted) = <<"b">>
    /\ LastCall.response.new_balance = 100


\* --------------------------------------------------- tampered requests

\* The device and the server as in Spec, with an attacker on the wire.
NextTamper ==
    \/ Next
    \/ \E amount \in TamperedAmounts : TamperedRequest(amount)

SpecTamper == Init /\ [][NextTamper]_vars

\* C13: a batch entry whose amount was modified after its signature was
\* computed is rejected by process_offline_batch and does not change the
\* authoritative balance: whenever a call carries, under the offline_id and
\* the signature of a transaction of the device, another amount than the one
\* the device signed, the entry is listed in failed_ids, no row is stored for
\* it and the balance stays as it was.
C13_TamperDetection ==
    [][(now' = now + 1 /\ Accepted(calls'[Len(calls')])) =>
          LET c == calls'[Len(calls')]
              tampered == {i \in 1..Len(c.payload) :
                             \E tx \in transactions :
                                 /\ tx.offline_id = c.payload[i].offline_id
                                 /\ tx.signature = c.payload[i].signature
                                 /\ tx.amount # c.payload[i].amount}
          IN  /\ \A i \in tampered :
                    /\ \E k \in 1..Len(c.response.failed_ids) :
                          c.response.failed_ids[k].offline_id = c.payload[i].offline_id
                    /\ \A k \in 1..Len(c.inserted) :
                          c.inserted[k].offline_id # c.payload[i].offline_id
              /\ (tampered = 1..Len(c.payload) /\ tampered # {}) =>
                    profiles'[c.caller].balance = profiles[c.caller].balance]_vars


\* ------------------------------------------ atomicity (SpecConcurrent)

\* C14: process_offline_batch takes effect as one unit: the step in which a
\* call ends either persists all the rows the call inserted together with
\* its balance update, or (the call aborted partway) leaves the ledger and the
\* profile as they were; no other step changes them, so no reader sees rows
\* of a batch without the matching balance update.
C14_Atomicity ==
    [][/\ \A c \in Connections :
             (inflight[c].pc = "updating" /\ inflight'[c].pc = "done") =>
                 \/ /\ ledger' = ledger
                    /\ profiles' = profiles
                    /\ \E k \in 1..Len(inflight[c].inserted) :
                          inflight[c].inserted[k].offline_id \in RowIds(ledger)
                 \/ /\ ledger' = ledger \o inflight[c].inserted
                    /\ profiles'[DeviceUser].balance = inflight[c].new_balance
                    /\ profiles'[DeviceUser].last_synced_at = now'
                    /\ \A k \in 1..Len(inflight[c].inserted) :
                          inflight[c].inserted[k].offline_id \notin RowIds(ledger)
       /\ (\A c \in Connections : inflight'[c].pc = inflight[c].pc \/ inflight'[c].pc # "done") =>
             (ledger' = ledger /\ profiles' = profiles)]_vars

\* A call that inserted b and then a ended after the other connection had
\* committed a: nothing of it is stored, b included.
C14_Witness ==
    \E c \in Connections :
        /\ inflight[c].pc = "done"
        /\ OfflineIdsOf(inflight[c].inserted) = <<"b", "a">>
        /\ "a" \in RowIds(ledger)
        /\ "b" \notin RowIds(ledger)
        /\ profiles[DeviceUser].balance # inflight[c].new_balance


\* ------------------------------------------------ after a sync (Spec)

\* A response that reports success: it carries no error.
Successful(response) == "error" \notin DOMAIN response \/ response.error = Null

\* The wallet shows the balance of the response and every transaction the
\* response lists as processed is synced.
ResetTo(response, txs, w) ==
    /\ w # <<>>
    /\ w[1].cached_balance = response.new_balance
    /\ w[1].shadow_balance = response.new_balance
    /\ \A tx \in txs :
          (\E k \in 1..Len(response.processed_ids) :
               response.processed_ids[k] = tx.offline_id) => tx.sync_status = "synced"

\* C15 as stated: after syncOfflineTransactions completes a successful
\* cycle (it returns a response that carries no error), the wallet has
\* shadow_balance = cached_balance = response.new_balance and every
\* transaction listed in processed_ids is synced.
C15_Original ==
    [][(/\ syncPc' = "idle"
        /\ syncReturn' # syncReturn \/ syncPc = "wallet"
        /\ syncReturn' # <<>>
        /\ syncReturn'[1] = "response"
        /\ Successful(syncReturn'[2])) =>
             ResetTo(syncReturn'[2], transactions', wallet')]_vars

\* C15, amended: after syncOfflineTransactions completes a cycle that
\* submitted a batch and received a response without an error, the wallet
\* has shadow_balance = cached_balance = response.new_balance and every
\* transaction listed in processed_ids is synced.
C15_PostSyncReset ==
    [][(/\ syncPc = "wallet"
        /\ syncPc' = "idle"
        /\ Successful(syncResp[1])) =>
             /\ syncReturn' = <<"response", syncResp[1]>>
             /\ ResetTo(syncResp[1], transactions', wallet')]_vars

C15_Witness ==
    /\ syncPc = "idle"
    /\ syncReturn # <<>>
    /\ syncReturn[1] = "response"
    /\ Successful(syncReturn[2])
    /\ syncReturn[2].processed_ids = <<"b">>
    /\ FailedIds(syncReturn[2]) = <<"a">>
    /\ syncReturn[2].new_balance = 100
    /\ ResetTo(syncReturn[2], transactions, wallet)
    /\ \E tx \in transactions : tx.offline_id = "b" /\ tx.sync_status = "synced"


\* ------------------------------------------- the shadow balance (Spec)

\* The pending transactions of the device user among txs, in key order.
PendingRows(txs) ==
    InKeyOrder({tx \in txs : tx.user_id = DeviceUser /\ tx.sync_status = "pending"})

\* shadow_balance = cached_balance - (pending debits) + (pending credits)
ShadowMatchesPending(w, txs) ==
    w # <<>> =>
        w[1].shadow_balance = w[1].cached_balance - AmountsOf(PendingRows(txs), "debit")
                                                  + AmountsOf(PendingRows(txs), "credit")

\* C16: the wallet satisfies shadow_balance = cached_balance - (sum of
\* pending debits) + (sum of pending credits) after updateWalletPendingAmounts
\* and after a sync cycle, entries the server rejected that stay pending
\* included. Stated for the steps that write the wallet: a recomputation, or
\* the end of a cycle whose response carries no error and during which no
\* transaction was created.
C16_ShadowInvariant ==
    [][(\/ wallet' # wallet /\ syncPc' = syncPc
        \/ /\ syncPc = "wallet"
           /\ syncPc' = "idle"
           /\ Successful(syncResp[1])
           /\ \A tx \in transactions :
                 \E k \in 1..Len(syncBatch) : syncBatch[k].offline_id = tx.offline_id) =>
             ShadowMatchesPending(wallet', transactions')]_vars


\* ------------------------------------------------- one device, alone

\* A device whose user signed up with the default balance and records
\* payments like "Pay 500 for lunch"; nobody else talks to the server.
DeviceBalances == {10000}
DeviceAmounts == {500}

InitDeviceAlone ==
    /\ \E b \in DeviceBalances :
          /\ profiles = [u \in {DeviceUser, OtherUser} |->
                            [balance |-> IF u = DeviceUser THEN b ELSE 100,
                             last_synced_at |-> 0]]
          /\ wallet = SeedWallet(b)
    /\ origin = profiles
    /\ ledger = <<>>
    /\ now = 0
    /\ calls = <<>>
    /\ inflight = [p \in Connections |-> NoTransaction]
    /\ payment_requests = <<>>
    /\ InitDevice
    /\ configured \in BOOLEAN
    /\ request = <<>>

\* syncOfflineTransactions is called again while the first call awaits the
\* answer to its RPC. Nothing in the function tells the second call that a
\* first one is running: it reads the pending rows, which the first call has
\* not marked yet, sends them, and handles the response. The second call is
\* taken here as running to its end within the first call's await.
SyncOverlapping(uid) ==
    /\ syncPc = "rpc"
    /\ \E onLine \in BOOLEAN : onLine /\ configured
    /\ GetPendingTransactions(DeviceUser) # <<>>
    /\ LET pending == GetPendingTransactions(DeviceUser)
           out == ProcessOfflineBatch(uid, PayloadOf(pending), profiles, ledger, now + 1)
       IN  /\ request' = PayloadOf(pending)
           /\ ServerCall(uid, PayloadOf(pending), out)
           /\ IF out.raised
              THEN /\ syncReturn' = <<"null">>
                   /\ UNCHANGED <<transactions, wallet>>
              ELSE /\ transactions' = IF Len(out.response.processed_ids) > 0
                                      THEN MarkTransactionsSynced(out.response.processed_ids)
                                      ELSE transactions
                   /\ wallet' = <<[id |-> DeviceUser,
                                   cached_balance |-> out.response.new_balance,
                                   shadow_balance |-> out.response.new_balance,
                                   pending_debits |-> <<>>,
                                   pending_credits |-> <<>>,
                                   last_sync_success |-> <<>>]>>
                   /\ syncReturn' = <<"response", out.response>>
    /\ UNCHANGED <<nextId, created, configured, syncPc, syncBatch, syncResp, voice>>

NextDevice ==
    \/ \E type \in TxTypes, amount \in DeviceAmounts : AddOfflineTransaction(type, amount)
    \/ UpdateWalletPendingAmounts
    \/ SyncSkipped
    \/ SyncNothingPending
    \/ SyncCollect
    \/ SyncTransportError
    \/ \E uid \in Sessions : SyncResponseLost(uid)
    \/ \E uid \in Sessions : SyncRpc(uid)
    \/ SyncMark
    \/ SyncWallet
    \/ \E uid \in Sessions : SyncOverlapping(uid)

SpecDevice == InitDeviceAlone /\ [][NextDevice]_vars

\* The step is a run of updateWalletPendingAmounts that wrote the wallet.
Recomputed == wallet' # wallet /\ wallet' # <<>> /\ wallet'[1].pending_debits # <<>>

\* C17: creating a local transaction (persist as pending, then recompute
\* the wallet) makes no network call and puts the new entry into
\* shadow_balance at once, cached_balance staying as it was; with
\* cached_balance = 10000 and no other pending entry, a debit of 500 makes
\* shadow_balance read 9500.
C17_OptimisticLocality ==
    [][/\ (nextId' # nextId \/ Recomputed) => UNCHANGED <<serverVars, request>>
       /\ nextId' # nextId =>
             \E tx \in transactions' \ transactions :
                 /\ transactions' = transactions \cup {tx}
                 /\ tx.sync_status = "pending"
       /\ Recomputed =>
             /\ ShadowMatchesPending(wallet', transactions)
             /\ wallet'[1].cached_balance = wallet[1].cached_balance
             /\ (/\ wallet[1].cached_balance = 10000
                 /\ \E tx \in transactions :
                       /\ tx.type = "debit"
                       /\ tx.amount = 500
                       /\ {t \in transactions : t.sync_status = "pending"} = {tx}) =>
                   /\ wallet'[1].shadow_balance = 9500
                   /\ wallet'[1].cached_balance = 10000]_vars

C17_Witness ==
    /\ now = 0
    /\ request = <<>>
    /\ \E tx \in transactions :
          transactions = {tx} /\ tx.type = "debit" /\ tx.amount = 500
                              /\ tx.sync_status = "pending"
    /\ wallet[1].pending_debits = <<500>>
    /\ wallet[1].cached_balance = 10000
    /\ wallet[1].shadow_balance = 9500

\* C20: at most one sync cycle is in flight: while a call of
\* syncOfflineTransactions is between reading the pending set and applying
\* the response, a second call does not submit a batch, so no batch of the
\* device reaches the server while the first call awaits its answer.
C20_MutualExclusion ==
    [][(syncPc = "rpc" /\ syncPc' = "rpc") => (now' = now /\ calls' = calls)]_vars


\* --------------------------------------------- rejected entries (Spec)

\* C19: when a sync cycle ends, every transaction whose offline_id the
\* response lists in failed_ids has sync_status = failed and a retry_count
\* one above the one it was sent with.
C19_RejectionsMarkedFailed ==
    [][(syncPc = "wallet" /\ syncPc' = "idle") =>
          \A k \in 1..Len(syncResp[1].failed_ids), i \in 1..Len(syncBatch) :
              syncBatch[i].offline_id = syncResp[1].failed_ids[k].offline_id =>
                  \A tx \in transactions' :
                      tx.offline_id = syncBatch[i].offline_id =>
                          /\ tx.sync_status = "failed"
                          /\ tx.retry_count = syncBatch[i].retry_count + 1]_vars


\* ------------------------------------------- repeated rejections

\* max_retries shown for an item of the sync queue.
RetryCeiling == 5

\* A device whose debits the server keeps rejecting: the authoritative
\* balance is 0 and stays 0. The server clock starts RetryCeiling calls short
\* of its bound, so that RetryCeiling cycles can run.
InitRetry ==
    /\ profiles = [u \in {DeviceUser, OtherUser} |->
                      [balance |-> IF u = DeviceUser THEN 0 ELSE 100,
                       last_synced_at |-> 0]]
    /\ wallet = SeedWallet(0)
    /\ origin = profiles
    /\ ledger = <<>>
    /\ now = MaxClock - RetryCeiling
    /\ calls = <<>>
    /\ inflight = [p \in Connections |-> NoTransaction]
    /\ payment_requests = <<>>
    /\ InitDevice
    /\ configured = TRUE
    /\ request = <<>>

NextRetry ==
    \/ \E amount \in LocalAmounts : AddOfflineTransaction("debit", amount)
    \/ UpdateWalletPendingAmounts
    \/ SyncCollect
    \/ SyncTransportError
    \/ SyncRpc(DeviceUser)
    \/ SyncMark
    \/ SyncWallet

SpecRetry == InitRetry /\ [][NextRetry]_vars

\* Sync attempts the server has answered so far. Under SpecRetry each of them
\* carried the transaction created first and rejected it.
Attempts == now - (MaxClock - RetryCeiling)

RejectedIn(c, offlineId) ==
    \E k \in 1..Len(c.response.failed_ids) : c.response.failed_ids[k].offline_id = offlineId

\* C18: a transaction rejected in 5 consecutive sync attempts has
\* sync_status = conflict once the fifth attempt has ended, and is in no
\* batch syncOfflineTransactions builds afterwards.
C18_RetryCeiling ==
    (/\ Attempts >= RetryCeiling
     /\ Len(calls) = 2
     /\ RejectedIn(calls[1], DeviceOfflineIds[1])
     /\ RejectedIn(calls[2], DeviceOfflineIds[1])) =>
        /\ syncPc = "idle" =>
              \A tx \in transactions :
                  tx.offline_id = DeviceOfflineIds[1] => tx.sync_status = "conflict"
        /\ syncPc = "rpc" =>
              \A i \in 1..Len(syncBatch) : syncBatch[i].offline_id # DeviceOfflineIds[1]


\* ------------------------------------------------ the store on its own

MaxRetry == 1

SyncStatuses == {"pending", "syncing", "synced", "failed", "conflict"}

\* Amounts a caller may hand to createTransaction.
CreateAmounts == {-100, 0, 100}

\* A row another user of the same browser left in the table.
ForeignRow(status) ==
    [id |-> 1, offline_id |-> DeviceOfflineIds[1], user_id |-> OtherUser, amount |-> 100,
     type |-> "debit", signature |-> "sig", timestamp |-> 1, sync_status |-> status,
     retry_count |-> 0]

InitStore ==
    /\ InitServer
    /\ voice = InitialVoice
    /\ configured = TRUE
    /\ request = <<>>
    /\ syncPc = "idle"
    /\ syncBatch = <<>>
    /\ syncResp = <<>>
    /\ syncReturn = <<>>
    /\ \/ /\ transactions = {}
          /\ nextId = 1
          /\ created = <<>>
       \/ /\ \E status \in {"pending", "synced"} : transactions = {ForeignRow(status)}
          /\ nextId = 2
          /\ created = <<DeviceOfflineIds[1]>>

\* Mutant of CreateTransaction: the amount is not validated.
CreateTransactionUnchecked(type, amount) == AddOfflineTransaction(type, amount)

\* createTransaction(kind, amount, ...): validates amount > 0 and persists
\* the entry as pending; with amount <= 0 it fails and nothing is persisted.
CreateTransaction(type, amount) ==
    IF amount <= 0
    THEN UNCHANGED vars
    ELSE AddOfflineTransaction(type, amount)

\* markTransactionsSynced(offlineIds), called on its own.
StoreMarkSynced(offlineIds) ==
    /\ transactions' = MarkTransactionsSynced(offlineIds)
    /\ UNCHANGED <<serverVars, voice, request, wallet, nextId, created, configured,
                   syncPc, syncBatch, syncResp, syncReturn>>

\* The table txs after updateTransactionStatus(offlineId, status,
\* incrementRetry): retry_count is read from the first row with the
\* offline_id, and every row with the offline_id is modified.
UpdateTransactionStatusRows(txs, offlineId, status, incrementRetry) ==
    LET hits == {tx \in txs : tx.offline_id = offlineId}
        first == CHOOSE tx \in hits : \A q \in hits : tx.id <= q.id
    IN  {IF tx.offline_id = offlineId
         THEN [tx EXCEPT !.sync_status = status,
                         !.retry_count = IF incrementRetry THEN first.retry_count + 1 ELSE @]
         ELSE tx : tx \in txs}

\* updateTransactionStatus(offlineId, status, incrementRetry)
UpdateTransactionStatus(offlineId, status, incrementRetry) ==
    /\ incrementRetry => \A tx \in transactions : tx.retry_count < MaxRetry
    /\ transactions' = UpdateTransactionStatusRows(transactions, offlineId, status,
                                                    incrementRetry)
    /\ UNCHANGED <<serverVars, voice, request, wallet, nextId, created, configured,
                   syncPc, syncBatch, syncResp, syncReturn>>

\* Mutant of ClearOldSyncedTransactions: the status is not looked at.
ClearOldTransactionsAnyStatus(userId, cutoffTime) ==
    /\ transactions' = {tx \in transactions :
                            ~(tx.user_id = userId /\ tx.timestamp < cutoffTime)}
    /\ UNCHANGED <<serverVars, voice, request, wallet, nextId, created, configured,
                   syncPc, syncBatch, syncResp, syncReturn>>

\* clearOldSyncedTransactions(userId, daysOld), with
\* cutoffTime = Date.now() - daysOld * 24 * 60 * 60 * 1000.
ClearOldSyncedTransactions(userId, cutoffTime) ==
    /\ transactions' = {tx \in transactions :
                            ~(/\ tx.user_id = userId
                              /\ tx.sync_status = "synced"
                              /\ tx.timestamp < cutoffTime)}
    /\ UNCHANGED <<serverVars, voice, request, wallet, nextId, created, configured,
                   syncPc, syncBatch, syncResp, syncReturn>>

\* cleanupOldTransactions(userId, daysOld): the same deletion; the number of
\* deleted rows it returns is not kept.
CleanupOldTransactions(userId, cutoffTime) ==
    /\ transactions' = {tx \in transactions :
                            ~(/\ tx.user_id = userId
                              /\ tx.sync_status = "synced"
                              /\ tx.timestamp < cutoffTime)}
    /\ UNCHANGED <<serverVars, voice, request, wallet, nextId, created, configured,
                   syncPc, syncBatch, syncResp, syncReturn>>

\* Date.now() - daysOld * 24 * 60 * 60 * 1000, on the scale of the timestamps.
CutoffTimes == 0..(MaxTx + 1)

NextStore ==
    \/ \E type \in TxTypes, amount \in CreateAmounts : CreateTransaction(type, amount)
    \/ \E ids \in SeqsUpTo({DeviceOfflineIds[i] : i \in 1..MaxTx}, 1) : StoreMarkSynced(ids)
    \/ \E id \in {DeviceOfflineIds[i] : i \in 1..MaxTx}, status \in SyncStatuses,
          incrementRetry \in BOOLEAN : UpdateTransactionStatus(id, status, incrementRetry)
    \/ \E userId \in {DeviceUser, OtherUser}, cutoffTime \in CutoffTimes :
          ClearOldSyncedTransactions(userId, cutoffTime)
    \/ \E userId \in {DeviceUser, OtherUser}, cutoffTime \in CutoffTimes :
          CleanupOldTransactions(userId, cutoffTime)

SpecStore == InitStore /\ [][NextStore]_vars

\* --------------------------------------------------- the sync queue

\* The device creates transactions, its entries change status, the wallet is
\* recomputed and sync cycles start; no request reaches the server.
InitQueue ==
    /\ InitServer
    /\ InitDevice
    /\ configured = TRUE
    /\ request = <<>>

NextQueue ==
    \/ \E type \in TxTypes, amount \in LocalAmounts : AddOfflineTransaction(type, amount)
    \/ \E id \in {DeviceOfflineIds[i] : i \in 1..MaxTx}, status \in SyncStatuses :
          UpdateTransactionStatus(id, status, FALSE)
    \/ UpdateWalletPendingAmounts
    \/ SyncCollect
    \/ SyncTransportError

SpecQueue == InitQueue /\ [][NextQueue]_vars


\* ------------------------------------------------ store operations (SpecStore)

\* C21: a local transaction with sync_status synced or conflict keeps its
\* sync_status and its retry_count in every store operation, and carrying
\* out updateTransactionStatus or markTransactionsSynced a second time with
\* the same arguments leaves the table as the first time left it.
C21_TerminalAbsorbing ==
    [][/\ \A tx \in transactions : \A after \in transactions' :
              (tx.sync_status \in {"synced", "conflict"} /\ after.id = tx.id) =>
                  /\ after.sync_status = tx.sync_status
                  /\ after.retry_count = tx.retry_count
       /\ \A id \in {DeviceOfflineIds[i] : i \in 1..MaxTx}, status \in SyncStatuses,
             incrementRetry \in BOOLEAN :
              transactions' = UpdateTransactionStatusRows(transactions, id, status,
                                                          incrementRetry) =>
                  UpdateTransactionStatusRows(transactions', id, status, incrementRetry)
                      = transactions'
      ]_vars

\* C22: createTransaction with amount <= 0 persists nothing, so no row of
\* the local table has a non-positive amount, and a row that enters the
\* table is pending.
C22_AmountValidated ==
    [][\A tx \in transactions' :
          /\ tx.amount > 0
          /\ (\A before \in transactions : before.id # tx.id) => tx.sync_status = "pending"
      ]_vars

C22_Witness ==
    /\ \E tx \in transactions : tx.user_id = DeviceUser /\ tx.amount > 0
    /\ nextId = MaxTx + 1

\* The rows of DeviceUser the specification counts as still pending.
UnsettledRows(txs) ==
    InKeyOrder({tx \in txs : /\ tx.user_id = DeviceUser
                             /\ tx.sync_status \in {"pending", "syncing", "failed"}})

\* C23: after updateWalletPendingAmounts the wallet's pending_debits and
\* pending_credits are the sums of the amounts of the user's debit and credit
\* transactions whose sync_status is pending, syncing or failed.
C23_PendingAggregates ==
    [][(UpdateWalletPendingAmounts /\ wallet' # <<>>) =>
          /\ wallet'[1].pending_debits = <<AmountsOf(UnsettledRows(transactions), "debit")>>
          /\ wallet'[1].pending_credits = <<AmountsOf(UnsettledRows(transactions), "credit")>>
      ]_vars

\* The rows a retention call for userId with horizon cutoffTime may delete.
Purgeable(userId, cutoffTime) ==
    {tx \in transactions : /\ tx.user_id = userId
                           /\ tx.sync_status = "synced"
                           /\ tx.timestamp < cutoffTime}

\* C24: a step that removes rows from the local table removes, for one user
\* and one horizon, exactly that user's synced rows older than the horizon;
\* rows in any other status, newer synced rows and other users' rows stay.
C24_Retention ==
    [][(\E tx \in transactions : \A after \in transactions' : after.id # tx.id) =>
          \E userId \in {DeviceUser, OtherUser}, cutoffTime \in CutoffTimes :
              /\ transactions' = transactions \ Purgeable(userId, cutoffTime)
              /\ Purgeable(userId, cutoffTime) # {}
      ]_vars

\* The older row has been purged; a newer synced row of the device is still
\* there.
C24_Witness ==
    /\ nextId = 3
    /\ \A tx \in transactions : tx.id # 1
    /\ \E tx \in transactions :
          tx.id = 2 /\ tx.user_id = DeviceUser /\ tx.sync_status = "synced"


\* --------------------------------------------------- sync cycles (Spec)

EmptyResult == [processed_ids |-> <<>>, failed_ids |-> <<>>, new_balance |-> 0]

\* C25: a sync cycle that finds no pending transaction of the user ends at
\* once with the result {processed_ids: [], failed_ids: [], ...}: no request
\* is built and no call reaches the server, and no transaction and no wallet
\* field changes.
C25_EmptyCycle ==
    [][(/\ syncPc = "idle"
        /\ GetPendingTransactions(DeviceUser) = <<>>
        /\ syncReturn' # syncReturn) =>
           /\ syncPc' = "idle"
           /\ UNCHANGED <<serverVars, voice, request, transactions, wallet, syncBatch, syncResp>>
           /\ syncReturn' = <<"null">> \/ syncReturn' = <<"response", EmptyResult>>
           /\ configured => \E onLine \in BOOLEAN :
                                syncReturn' = IF onLine THEN <<"response", EmptyResult>>
                                              ELSE <<"null">>
      ]_vars

\* An empty cycle has ended on a device that never sent a request; the
\* wallet still shows the balance it was seeded with.
C25_Witness ==
    /\ syncPc = "idle"
    /\ syncReturn = <<"response", EmptyResult>>
    /\ request = <<>>
    /\ calls = <<>>
    /\ wallet # <<>>
    /\ wallet[1].cached_balance = 50
    /\ wallet[1].shadow_balance = 50

\* The offline_ids a response lists, as processed or as failed.
ListedIn(response) ==
    {response.processed_ids[k] : k \in 1..Len(response.processed_ids)}
        \cup {response.failed_ids[k].offline_id : k \in 1..Len(response.failed_ids)}

\* C26: while a response is applied, a pending transaction whose offline_id
\* the response lists neither in processed_ids nor in failed_ids is left as
\* it is, and the next cycle's batch holds every pending transaction of the
\* user.
C26_UntouchedStayPending ==
    [][/\ syncPc \in {"mark", "wallet"} =>
              \A tx \in transactions :
                  (tx.sync_status = "pending" /\ tx.offline_id \notin ListedIn(syncResp[1]))
                      => tx \in transactions'
       /\ syncPc = "rpc" =>
              \A tx \in transactions : tx.sync_status = "pending" => tx \in transactions'
       /\ (syncPc = "idle" /\ syncPc' = "rpc") =>
              \A tx \in transactions :
                  (tx.user_id = DeviceUser /\ tx.sync_status = "pending") =>
                      \E i \in 1..Len(syncBatch') : syncBatch'[i] = tx
      ]_vars

\* A cycle marked one transaction synced; a transaction created while it
\* ran, which its response does not list, is in the batch of the next cycle.
C26_Witness ==
    /\ syncPc = "rpc"
    /\ syncReturn # <<>>
    /\ syncReturn[1] = "response"
    /\ Len(syncReturn[2].processed_ids) > 0
    /\ \E i \in 1..Len(syncBatch) :
          /\ syncBatch[i].offline_id \notin ListedIn(syncReturn[2])
          /\ syncBatch[i].sync_status = "pending"
          /\ syncBatch[i] \in transactions

\* C27: the batch a sync cycle collects holds every transaction of the user
\* in status pending, syncing or failed, a failed one below the retry
\* ceiling included.
C27_BatchIsNonTerminal ==
    [][(syncPc = "idle" /\ syncPc' = "rpc") =>
          \A tx \in transactions :
              (/\ tx.user_id = DeviceUser
               /\ tx.sync_status \in {"pending", "syncing", "failed"}
               /\ tx.retry_count < RetryCeiling) =>
                  \E i \in 1..Len(syncBatch') : syncBatch'[i] = tx
      ]_vars

\* C29: when a sync cycle has applied a successful response to the wallet, checkWalletStaleness is false at that time and for the next
\* 24 hours.
C29_StalenessBookkeeping ==
    [][(/\ syncPc = "wallet"
        /\ syncPc' = "idle"
        /\ Successful(syncResp[1])
        /\ "new_balance" \in DOMAIN syncResp[1]) =>
          \A hours \in 0..24 : ~CheckWalletStaleness(wallet', now + hours)
      ]_vars


\* ------------------------------------------- sync cycles without end

\* A device whose session stays valid keeps running sync cycles. The number
\* of cycles is not bounded, so the call log and the server clock are left
\* as they are: every call is stamped with the same NOW().
LiveCall(out) ==
    /\ profiles' = out.profiles
    /\ ledger' = out.ledger
    /\ UNCHANGED <<now, calls, inflight, origin, payment_requests>>

\* The server runs the batch and its response arrives.
SyncRpcLive ==
    /\ syncPc = "rpc"
    /\ \E out \in {ProcessOfflineBatch(DeviceUser, PayloadOf(syncBatch), profiles, ledger,
                                         now + 1)} :
          /\ LiveCall(out)
          /\ IF out.raised
             THEN CatchSyncError
             ELSE /\ syncResp' = <<out.response>>
                  /\ syncPc' = "mark"
                  /\ UNCHANGED <<transactions, wallet, nextId, created, configured,
                                 syncBatch, syncReturn>>
    /\ UNCHANGED <<request, voice>>

\* The server runs the batch and commits; the response is lost.
SyncResponseLostLive ==
    /\ syncPc = "rpc"
    /\ \E out \in {ProcessOfflineBatch(DeviceUser, PayloadOf(syncBatch), profiles, ledger,
                                         now + 1)} : LiveCall(out)
    /\ CatchSyncError
    /\ UNCHANGED <<request, voice>>

InitLive ==
    /\ InitServer
    /\ InitDevice
    /\ configured = TRUE
    /\ request = <<>>

NextLive ==
    \/ \E type \in TxTypes, amount \in LocalAmounts : AddOfflineTransaction(type, amount)
    \/ UpdateWalletPendingAmounts
    \/ SyncNothingPending
    \/ SyncCollect
    \/ SyncTransportError
    \/ SyncResponseLostLive
    \/ SyncRpcLive
    \/ SyncMark
    \/ SyncWallet

\* Cycles keep being started and carried through, and the network is
\* reachable again and again: a request that is sent repeatedly is answered
\* repeatedly.
SpecLive ==
    /\ InitLive
    /\ [][NextLive]_vars
    /\ WF_vars(SyncCollect)
    /\ SF_vars(SyncRpcLive)
    /\ WF_vars(SyncMark)
    /\ WF_vars(SyncWallet)

\* The amounts of the user's local debits up to the i-th transaction that
\* the ledger does not hold yet.
OutstandingDebits(i) ==
    AmountsOf(InKeyOrder({tx \in transactions :
                            /\ tx.user_id = DeviceUser
                            /\ tx.id <= i
                            /\ tx.type = "debit"
                            /\ ExistingCount(ledger, tx.offline_id) = 0}), "debit")

\* The i-th local transaction exists and the server would admit it: it is
\* signed, and it is a credit or the balance covers it together with the
\* earlier debits not yet stored.
Admissible(i) ==
    \E tx \in transactions :
        /\ tx.id = i
        /\ tx.signature # Null /\ tx.signature # ""
        /\ tx.type = "credit" \/ profiles[DeviceUser].balance >= OutstandingDebits(i)

SyncedOnce(i) ==
    \E tx \in transactions :
        /\ tx.id = i
        /\ tx.sync_status = "synced"
        /\ ExistingCount(ledger, tx.offline_id) = 1

\* C28: while sync cycles keep running with the network reachable and the
\* user signed in, a state in which some local transaction the server would
\* admit is not yet synced is followed by one in which every such
\* transaction is synced locally and stored exactly once in the ledger; and
\* no pending transaction ever leaves the local table.
C28_NoDataLoss ==
    /\ [][\A tx \in transactions :
              tx.sync_status = "pending" => \E after \in transactions' : after.id = tx.id]_vars
    /\ (\E i \in 1..MaxTx : Admissible(i) /\ ~SyncedOnce(i))
           ~> (\A i \in 1..MaxTx : Admissible(i) => SyncedOnce(i))

\* Every transaction the device created is synced and stored once, a debit
\* among them that the starting balance did not cover.
C28_Witness ==
    /\ nextId = MaxTx + 1
    /\ \A i \in 1..MaxTx : SyncedOnce(i)
    /\ \E tx \in transactions : tx.type = "debit"
    /\ origin[DeviceUser].balance < 100


\* ------------------------------------- the ledger and payment requests

MaxRequests == 1

\* 'req-' || request_id || '-pay' and 'req-' || request_id || '-rcv'
PayOfflineId(request_id) == <<"req-1-pay", "req-2-pay", "req-3-pay">>[request_id]
RcvOfflineId(request_id) == <<"req-1-rcv", "req-2-rcv", "req-3-rcv">>[request_id]

\* Amounts a caller may name: 0.004 and 0.100.
LedgerAmounts == {4, 100}

LedgerEntries ==
    [offline_id : {"a", PayOfflineId(1)}, amount : LedgerAmounts, type : TxTypes,
     signature : {"sig"}]

LedgerPayloads == SeqsUpTo(LedgerEntries, MaxBatch)

\* process_offline_batch(payload), run and committed.
SubmitBatch(user_uuid, payload) ==
    /\ now < MaxClock
    /\ \E out \in {ProcessOfflineBatch(user_uuid, payload, profiles, ledger, now + 1)} :
          /\ profiles' = out.profiles
          /\ ledger' = out.ledger
    /\ now' = now + 1
    /\ UNCHANGED <<calls, inflight, origin, payment_requests, request, deviceVars>>

\* create_payment_request(payer_email, request_amount): payer_uuid is the
\* user with that email, or NULL. payment_requests.amount is NUMERIC(12, 2)
\* with CHECK (amount > 0); a violated CHECK aborts the function.
CreatePaymentRequest(requester_uuid, payer_uuid, request_amount) ==
    /\ Len(payment_requests) < MaxRequests
    /\ payment_requests' =
          IF \/ requester_uuid = Null
             \/ payer_uuid = Null
             \/ payer_uuid = requester_uuid
             \/ Round2(request_amount) <= 0
          THEN payment_requests
          ELSE Append(payment_requests,
                      [requester_id |-> requester_uuid, payer_id |-> payer_uuid,
                       amount |-> Round2(request_amount), status |-> "pending"])
    /\ UNCHANGED <<profiles, ledger, now, calls, inflight, origin, request, deviceVars>>

\* Mutant of ApproveRequest: the requester is not credited.
ApproveRequestNoCredit(payer_uuid, request_id, the_request, profs, rows, clock) ==
    LET deducted == [profs EXCEPT ![payer_uuid] =
                        [balance |-> Round2(@.balance - the_request.amount),
                         last_synced_at |-> clock]]
        paid == InsertTransaction([ledger |-> rows, raised |-> FALSE], payer_uuid,
                                  [offline_id |-> PayOfflineId(request_id),
                                   amount |-> the_request.amount,
                                   type |-> "debit",
                                   signature |-> "request-approved"])
        received == IF paid.raised THEN paid
                    ELSE InsertTransaction(paid, the_request.requester_id,
                                           [offline_id |-> RcvOfflineId(request_id),
                                            amount |-> the_request.amount,
                                            type |-> "credit",
                                            signature |-> "request-approved"])
    IN  [raised |-> received.raised, profiles |-> deducted, ledger |-> received.ledger]

\* The two UPDATEs of profiles and the two INSERTs of the approve branch of
\* respond_to_request for the_request, against the tables profs and rows:
\* the tables they leave, or raised = TRUE when an INSERT hit the UNIQUE
\* constraint on offline_id.
ApproveRequest(payer_uuid, request_id, the_request, profs, rows, clock) ==
    LET deducted == [profs EXCEPT ![payer_uuid] =
                        [balance |-> Round2(@.balance - the_request.amount),
                         last_synced_at |-> clock]]
        credited == [deducted EXCEPT ![the_request.requester_id] =
                        [balance |-> Round2(@.balance + the_request.amount),
                         last_synced_at |-> clock]]
        paid == InsertTransaction([ledger |-> rows, raised |-> FALSE], payer_uuid,
                                  [offline_id |-> PayOfflineId(request_id),
                                   amount |-> the_request.amount,
                                   type |-> "debit",
                                   signature |-> "request-approved"])
        received == IF paid.raised THEN paid
                    ELSE InsertTransaction(paid, the_request.requester_id,
                                           [offline_id |-> RcvOfflineId(request_id),
                                            amount |-> the_request.amount,
                                            type |-> "credit",
                                            signature |-> "request-approved"])
    IN  [raised |-> received.raised, profiles |-> credited, ledger |-> received.ledger]

\* What respond_to_request returns and the tables it leaves when it ends
\* without writing.
RespondRefused(msg, profs, rows, reqs) ==
    [raised |-> FALSE, response |-> [error |-> msg, status |-> Null],
     profiles |-> profs, ledger |-> rows, payment_requests |-> reqs]

\* The checks respond_to_request makes on the row it selected: the error it
\* returns, or Null when it goes on.
RespondGuard(payer_uuid, request_id, reqs) ==
    IF payer_uuid = Null THEN "Not authenticated"
    ELSE IF request_id \notin 1..Len(reqs) THEN "Request not found"
    ELSE IF reqs[request_id].payer_id # payer_uuid THEN "Not authorized"
    ELSE IF reqs[request_id].status # "pending" THEN "Request already processed"
    ELSE Null

\* Mutant of RespondEffects: the balance of the payer is not checked.
RespondEffectsUnchecked(payer_uuid, request_id, approve, the_request, profs, rows, reqs, clock) ==
    IF ~approve
    THEN [raised |-> FALSE, response |-> [error |-> Null, status |-> "rejected"],
          profiles |-> profs, ledger |-> rows,
          payment_requests |-> [reqs EXCEPT ![request_id].status = "rejected"]]
    ELSE LET out == ApproveRequest(payer_uuid, request_id, the_request, profs, rows, clock)
         IN  IF out.raised
             THEN [raised |-> TRUE, response |-> [error |-> "unique_violation", status |-> Null],
                   profiles |-> profs, ledger |-> rows, payment_requests |-> reqs]
             ELSE [raised |-> FALSE, response |-> [error |-> Null, status |-> "approved"],
                   profiles |-> out.profiles, ledger |-> out.ledger,
                   payment_requests |-> [reqs EXCEPT ![request_id].status = "approved"]]

\* respond_to_request from IF approve on, for the row the_request it
\* selected earlier, against the tables as they are now.
RespondEffects(payer_uuid, request_id, approve, the_request, profs, rows, reqs, clock) ==
    IF ~approve
    THEN [raised |-> FALSE, response |-> [error |-> Null, status |-> "rejected"],
          profiles |-> profs, ledger |-> rows,
          payment_requests |-> [reqs EXCEPT ![request_id].status = "rejected"]]
    ELSE IF profs[payer_uuid].balance < the_request.amount
    THEN RespondRefused("Insufficient balance", profs, rows, reqs)
    ELSE LET out == ApproveRequest(payer_uuid, request_id, the_request, profs, rows, clock)
         IN  IF out.raised
             THEN [raised |-> TRUE, response |-> [error |-> "unique_violation", status |-> Null],
                   profiles |-> profs, ledger |-> rows, payment_requests |-> reqs]
             ELSE [raised |-> FALSE, response |-> [error |-> Null, status |-> "approved"],
                   profiles |-> out.profiles, ledger |-> out.ledger,
                   payment_requests |-> [reqs EXCEPT ![request_id].status = "approved"]]

\* respond_to_request(request_id, approve) called in a session whose
\* auth.uid() is payer_uuid, run from start to end: its outcome and the
\* tables it leaves.
RespondOutcome(payer_uuid, request_id, approve, profs, rows, reqs, clock) ==
    IF RespondGuard(payer_uuid, request_id, reqs) # Null
    THEN RespondRefused(RespondGuard(payer_uuid, request_id, reqs), profs, rows, reqs)
    ELSE RespondEffects(payer_uuid, request_id, approve, reqs[request_id],
                        profs, rows, reqs, clock)

\* What the caller of respond_to_request sent and got back, and when.
RespondRecord(payer_uuid, request_id, approve, out, clock) ==
    [caller |-> payer_uuid, request_id |-> request_id, approve |-> approve,
     raised |-> out.raised, response |-> out.response, at |-> clock]

\* One serial execution of respond_to_request; calls keeps the last one.
RespondToRequest(payer_uuid, request_id, approve) ==
    /\ now < MaxClock
    /\ now' = now + 1
    /\ \E out \in {RespondOutcome(payer_uuid, request_id, approve, profiles, ledger,
                                   payment_requests, now + 1)} :
          /\ profiles' = out.profiles
          /\ ledger' = out.ledger
          /\ payment_requests' = out.payment_requests
          /\ calls' = <<RespondRecord(payer_uuid, request_id, approve, out, now + 1)>>
    /\ UNCHANGED <<inflight, origin, request, deviceVars>>

InitLedger ==
    /\ InitServer
    /\ InitDevice
    /\ configured = TRUE
    /\ request = <<>>

\* The two functions are called one after the other, in any order, by any
\* session.
NextLedger ==
    \/ \E user_uuid \in {DeviceUser, OtherUser}, payload \in LedgerPayloads :
          SubmitBatch(user_uuid, payload)
    \/ \E requester_uuid \in {Null, DeviceUser, OtherUser},
          payer_uuid \in {Null, DeviceUser, OtherUser}, request_amount \in LedgerAmounts :
          CreatePaymentRequest(requester_uuid, payer_uuid, request_amount)
    \/ \E payer_uuid \in {Null, DeviceUser, OtherUser}, request_id \in 1..MaxRequests,
          approve \in BOOLEAN : RespondToRequest(payer_uuid, request_id, approve)

SpecLedger == InitLedger /\ [][NextLedger]_vars

\* The stored amounts of the rows of user u with type t.
LedgerSum(u, t) ==
    AmountsOf(SelectSeq(ledger, LAMBDA row : row.user_id = u), t)

\* C30: after any serial sequence of process_offline_batch and
\* respond_to_request calls, every user's profiles.balance is the user's
\* initial balance plus the amounts of the user's credit rows minus the
\* amounts of the user's debit rows in the transactions table.
C30_LedgerBalanceConsistent ==
    \A u \in DOMAIN profiles :
        profiles[u].balance = origin[u].balance + LedgerSum(u, "credit")
                                                - LedgerSum(u, "debit")


\* ------------------------------------------- batches naming other users

\* Entries as a client may forge them: user_id and recipient_id are fields
\* of the local row and travel in the JSON body.
FrameEntries ==
    [offline_id : OfflineIds, amount : {100}, type : TxTypes, signature : {"sig"},
     user_id : {DeviceUser, OtherUser}, recipient_id : {OtherUser}]

FramePayloads == SeqsUpTo(FrameEntries, MaxBatch)

NextFrame ==
    \E user_uuid \in {Null, DeviceUser, OtherUser}, payload \in FramePayloads :
        SubmitBatch(user_uuid, payload)

SpecFrame == InitLedger /\ [][NextFrame]_vars

\* The rows of ledger rows' that were not in rows.
InsertedRows(rows, rows2) == {rows2[k] : k \in (Len(rows) + 1)..Len(rows2)}

RequestEntries ==
    [offline_id : {"a", PayOfflineId(1)}, amount : {100}, type : TxTypes,
     signature : {"sig"}]

RequestPayloads == {<<e>> : e \in RequestEntries}

NextRequests ==
    \/ \E user_uuid \in {DeviceUser, OtherUser}, payload \in RequestPayloads :
          SubmitBatch(user_uuid, payload)
    \/ \E requester_uuid \in {Null, DeviceUser, OtherUser},
          payer_uuid \in {Null, DeviceUser, OtherUser}, request_amount \in LedgerAmounts :
          CreatePaymentRequest(requester_uuid, payer_uuid, request_amount)
    \/ \E payer_uuid \in {Null, DeviceUser, OtherUser}, request_id \in 1..(MaxRequests + 1),
          approve \in BOOLEAN : RespondToRequest(payer_uuid, request_id, approve)

SpecRequests == InitLedger /\ [][NextRequests]_vars

\* The step is a respond_to_request call.
Responded == now' = now + 1 /\ calls' # <<>> /\ calls'[1].at = now'

\* The rows of rows2 after the first Len(rows).
AppendedRows(rows, rows2) == SubSeq(rows2, Len(rows) + 1, Len(rows2))

\* C32: a successful respond_to_request(approve = true) takes the request
\* amount from the payer's balance and adds it to the requester's, so the
\* sum of the two is unchanged; it appends one debit row for the payer and
\* one credit row for the requester, both of the request amount; the
\* payer's balance is not negative afterwards.
C32_ApprovalConservesMoney ==
    [][(Responded /\ calls'[1].approve /\ calls'[1].response.error = Null) =>
          LET r == payment_requests[calls'[1].request_id]
              payer == r.payer_id
              requester == r.requester_id
              added == AppendedRows(ledger, ledger')
          IN  /\ profiles'[payer].balance = profiles[payer].balance - r.amount
              /\ profiles'[requester].balance = profiles[requester].balance + r.amount
              /\ profiles'[payer].balance + profiles'[requester].balance
                    = profiles[payer].balance + profiles[requester].balance
              /\ profiles'[payer].balance >= 0
              /\ SubSeq(ledger', 1, Len(ledger)) = ledger
              /\ Len(added) = 2
              /\ \E k \in 1..2 :
                    /\ added[k].user_id = payer
                    /\ added[k].type = "debit"
                    /\ added[k].amount = r.amount
                    /\ added[3 - k].user_id = requester
                    /\ added[3 - k].type = "credit"
                    /\ added[3 - k].amount = r.amount
    ]_vars

C32_Witness ==
    /\ calls # <<>>
    /\ calls[1].approve
    /\ calls[1].response.status = "approved"
    /\ Len(payment_requests) = 1
    /\ payment_requests[1].status = "approved"
    /\ Len(ledger) = 3
    /\ ledger[2].offline_id = PayOfflineId(1)
    /\ ledger[3].offline_id = RcvOfflineId(1)


\* The conditions under which respond_to_request must refuse the call c,
\* read from the tables before the call.
MustRefuse(c) ==
    \/ c.caller = Null
    \/ c.request_id \notin 1..Len(payment_requests)
    \/ /\ c.caller # Null
       /\ c.request_id \in 1..Len(payment_requests)
       /\ \/ payment_requests[c.request_id].payer_id # c.caller
          \/ /\ c.approve
             /\ profiles[c.caller].balance < payment_requests[c.request_id].amount

\* C34: respond_to_request called without a session, by a user who is not
\* the payer of the request, for a request that does not exist, or with
\* approve = true while the payer's balance is below the request amount,
\* returns an error and leaves every balance, every ledger row and every
\* request (a pending one still pending) as it was.
C34_RefusedChangesNothing ==
    [][(Responded /\ MustRefuse(calls'[1])) =>
          /\ calls'[1].response.error # Null
          /\ ~calls'[1].raised
          /\ profiles' = profiles
          /\ ledger' = ledger
          /\ payment_requests' = payment_requests
    ]_vars

C34_Witness ==
    /\ calls # <<>>
    /\ calls[1].approve
    /\ calls[1].response.error = "Insufficient balance"
    /\ Len(payment_requests) = 1
    /\ payment_requests[1].status = "pending"
    /\ profiles[payment_requests[1].payer_id].balance < payment_requests[1].amount
    /\ ledger = <<>>


\* ------------------------------ payment requests answered concurrently

\* Request amounts of 0.05 and 0.10.
ConcurrentAmounts == {50, 100}

\* respond_to_request up to the status check, in the transaction of
\* connection c. SELECT * INTO the_request takes no row lock, so another
\* transaction may answer the request before this one goes on. A refused
\* call ends here.
BeginRespond(c, payer_uuid, request_id, approve) ==
    /\ inflight[c].pc = "idle"
    /\ IF RespondGuard(payer_uuid, request_id, payment_requests) # Null
       THEN /\ calls' = <<RespondRecord(payer_uuid, request_id, approve,
                                        RespondRefused(RespondGuard(payer_uuid, request_id,
                                                                    payment_requests),
                                                       profiles, ledger, payment_requests),
                                        now)>>
            /\ UNCHANGED inflight
       ELSE /\ inflight' = [inflight EXCEPT ![c] =
                               [pc |-> "selected", caller |-> payer_uuid,
                                payload |-> <<[request_id |-> request_id,
                                               approve |-> approve,
                                               the_request |-> payment_requests[request_id]]>>,
                                new_balance |-> 0, inserted |-> <<>>]]
            /\ UNCHANGED calls
    /\ UNCHANGED <<profiles, ledger, now, origin, payment_requests, request, deviceVars>>

\* The rest of respond_to_request in the transaction of connection c, and
\* its commit: the statements read and write the rows as they are now (READ
\* COMMITTED), with the_request as it was selected.
CommitRespond(c) ==
    /\ inflight[c].pc = "selected"
    /\ now < MaxClock
    /\ now' = now + 1
    /\ \E args \in {inflight[c].payload[1]} :
       \E out \in {RespondEffects(inflight[c].caller, args.request_id, args.approve,
                                  args.the_request, profiles, ledger, payment_requests,
                                  now + 1)} :
          /\ profiles' = out.profiles
          /\ ledger' = out.ledger
          /\ payment_requests' = out.payment_requests
          /\ calls' = <<RespondRecord(inflight[c].caller, args.request_id, args.approve,
                                      out, now + 1)>>
    /\ inflight' = [inflight EXCEPT ![c] = NoTransaction]
    /\ UNCHANGED <<origin, request, deviceVars>>

NextRespondConcurrent ==
    \/ \E requester_uuid \in {DeviceUser, OtherUser},
          payer_uuid \in {DeviceUser, OtherUser}, request_amount \in ConcurrentAmounts :
          CreatePaymentRequest(requester_uuid, payer_uuid, request_amount)
    \/ \E c \in Connections, payer_uuid \in {DeviceUser, OtherUser},
          request_id \in 1..MaxRequests, approve \in BOOLEAN :
          BeginRespond(c, payer_uuid, request_id, approve)
    \/ \E c \in Connections : CommitRespond(c)

SpecRespondConcurrent == InitLedger /\ [][NextRespondConcurrent]_vars

\* C33: the status of a payment request moves only from pending to approved
\* or from pending to rejected; once a request is approved or rejected, no
\* call changes it: a respond_to_request for it returns an error ('Request
\* already processed' to its payer) and leaves every balance and every
\* ledger row as it was. This holds for calls that overlap as well.
C33_AnsweredAtMostOnce ==
    [][\A id \in 1..Len(payment_requests) :
          payment_requests[id].status # "pending" =>
             /\ payment_requests'[id] = payment_requests[id]
             /\ (calls' # calls /\ calls'[1].request_id = id) =>
                   /\ calls'[1].response.error # Null
                   /\ calls'[1].caller = payment_requests[id].payer_id =>
                         calls'[1].response.error = "Request already processed"
                   /\ profiles' = profiles
                   /\ ledger' = ledger
    ]_vars


\* ----------------------------------------------- the queue on display

\* getSyncQueueItems(userId): one item for each row of the user whose
\* sync_status is pending, syncing or failed.
GetSyncQueueItems(userId) ==
    {[id |-> tx.offline_id,
      type |-> "transaction",
      status |-> tx.sync_status,
      retry_count |-> tx.retry_count,
      max_retries |-> RetryCeiling,
      created_at |-> tx.timestamp] :
        tx \in {row \in transactions :
                   /\ row.user_id = userId
                   /\ row.sync_status \in {"pending", "syncing", "failed"}}}

\* useSyncQueue(userId).hasConflicts, computed from the items of the queue.
HasConflicts(userId) ==
    \E item \in GetSyncQueueItems(userId) : item.status = "conflict"

\* C35: getSyncQueueItems returns exactly the user's transactions in status
\* pending, syncing or failed, each with max_retries 5 and the retry count
\* of its row, and hasConflicts of useSyncQueue is true whenever the user
\* has a transaction in status conflict.
C35_QueueProjection ==
    \A userId \in {DeviceUser, OtherUser} :
        /\ {item.id : item \in GetSyncQueueItems(userId)}
              = {row.offline_id : row \in {tx \in transactions :
                                              /\ tx.user_id = userId
                                              /\ tx.sync_status \notin {"synced", "conflict"}}}
        /\ \A item \in GetSyncQueueItems(userId) :
              /\ item.max_retries = 5
              /\ \E row \in transactions :
                    /\ row.offline_id = item.id
                    /\ row.user_id = userId
                    /\ row.retry_count = item.retry_count
                    /\ row.sync_status = item.status
        /\ (\E row \in transactions : row.user_id = userId /\ row.sync_status = "conflict")
              => HasConflicts(userId)


\* ------------------------------------------------ voice conversations

MaxMessages == 4

\* parseIntent(text).type
IntentTypes ==
    {"payment", "receive", "query_balance", "query_transactions", "confirm", "cancel",
     "help", "unknown"}

\* extractEntities(text): the amount is null or positive (hasAmount), the
\* description is a part of the text or 'Voice transaction'. justNumber is
\* what parseFloat finds in the text when the amount is awaited.
ExtractedEntities ==
    [amount : {<<>>, <<500>>}, description : {"Voice transaction", "Lunch"},
     justNumber : {<<>>, <<500>>}]

VoiceOnly ==
    UNCHANGED <<serverVars, request, transactions, wallet, nextId, created, configured,
                syncPc, syncBatch, syncResp, syncReturn>>

\* The context processText leaves for an input that is no confirm, cancel,
\* help or query: the setContext updater at the end of processText.
MergeInput(prev, intent, entities) ==
    LET typed == IF intent = "payment"
                 THEN [prev EXCEPT !.intent = intent, !.transactionType = "debit"]
                 ELSE IF intent = "receive"
                 THEN [prev EXCEPT !.intent = intent, !.transactionType = "credit"]
                 ELSE prev
        amounted == IF entities.amount # <<>>
                    THEN [typed EXCEPT !.amount = entities.amount]
                    ELSE IF prev.state = "awaiting_amount" /\ entities.justNumber # <<>>
                    THEN [typed EXCEPT !.amount = entities.justNumber]
                    ELSE typed
        described == IF entities.description # "Voice transaction"
                     THEN [amounted EXCEPT !.description = entities.description]
                     ELSE IF prev.state = "awaiting_description"
                     THEN [amounted EXCEPT !.description = "text"]
                     ELSE amounted
    IN  UpdateState(described, GetNextState(described))

\* processText(text) with a text that is not blank: the user message is
\* added, then the intent decides.
ProcessText(intent, entities) ==
    /\ voice.context.messageHistory < MaxMessages
    /\ LET prev == AddMessage(voice.context)
           heard == [intent |-> intent, at |-> prev.messageHistory]
       IN  voice' =
             IF intent = "confirm"
             THEN IF prev.state = "confirming" /\ HasCompleteTransactionData(prev)
                  THEN [voice EXCEPT !.context = UpdateState(prev, "executing"),
                                     !.lastCommand = <<[amount |-> prev.amount[1],
                                                        description |-> prev.description,
                                                        type |-> prev.transactionType]>>,
                                     !.invoked = 0,
                                     !.effect = TRUE,
                                     !.heard = heard]
                  ELSE [voice EXCEPT !.context = prev, !.effect = TRUE, !.heard = heard]
             ELSE IF intent = "cancel"
             THEN [voice EXCEPT !.context = ResetContext(prev),
                                !.lastCommand = <<>>,
                                !.effect = TRUE,
                                !.heard = heard]
             ELSE IF intent = "help"
             THEN [voice EXCEPT !.context = prev, !.effect = TRUE, !.heard = heard]
             ELSE IF intent \in {"query_balance", "query_transactions"}
             THEN [voice EXCEPT !.context = prev, !.queries = @ + 1, !.effect = TRUE,
                                !.heard = heard]
             ELSE [voice EXCEPT !.context = MergeInput(prev, intent, entities),
                                !.effect = TRUE,
                                !.heard = heard]
    /\ VoiceOnly

\* queryBalance or queryTransactions has its answer: updateAssistantMessage
\* adds it to the history.
UpdateAssistantMessage ==
    /\ voice.queries > 0
    /\ voice.context.messageHistory < MaxMessages
    /\ voice' = [voice EXCEPT !.queries = @ - 1,
                              !.context = AddMessage(@),
                              !.effect = TRUE]
    /\ VoiceOnly

\* resetConversation()
ResetConversation(v) ==
    [v EXCEPT !.context = ResetContext(@), !.lastCommand = <<>>, !.effect = TRUE]

\* startListening() with speech recognition at hand; a stale context is
\* reset first.
StartListening(stale) ==
    /\ voice' = [(IF stale THEN ResetConversation(voice) ELSE voice)
                    EXCEPT !.context = UpdateState(@, "listening"), !.effect = TRUE]
    /\ VoiceOnly

\* handleClose()
HandleClose ==
    /\ voice' = ResetConversation(voice)
    /\ VoiceOnly

\* executeTransaction() up to the await of onTransaction.
ExecuteTransaction(v) ==
    IF v.lastCommand = <<>> \/ v.isExecutingRef
    THEN v
    ELSE [v EXCEPT !.isExecutingRef = TRUE, !.promise = TRUE, !.invoked = @ + 1]

\* The effect with dependencies lastCommand, context.state and
\* executeTransaction runs after a render in which one of them changed;
\* executeTransaction changes with lastCommand and with context, through
\* resetConversation.
RunEffect ==
    /\ voice.effect
    /\ voice' = IF voice.lastCommand # <<>> /\ voice.context.state = "executing"
                THEN ExecuteTransaction([voice EXCEPT !.effect = FALSE])
                ELSE [voice EXCEPT !.effect = FALSE]
    /\ VoiceOnly

\* onTransaction settles: it resolves to true or to false, or it throws.
\* Either way a timer of 2500 ms is set.
Settle(outcome) ==
    /\ voice.promise
    /\ voice' = [voice EXCEPT !.promise = FALSE,
                              !.timer = IF outcome = "throws" THEN "flag" ELSE "reset"]
    /\ VoiceOnly

\* The timer fires: after a resolved call the conversation is reset and the
\* flag cleared, after a thrown error only the flag is cleared.
TimerFires ==
    /\ voice.timer # "none"
    /\ voice' = IF voice.timer = "reset"
                THEN [ResetConversation(voice) EXCEPT !.isExecutingRef = FALSE,
                                                      !.timer = "none"]
                ELSE [voice EXCEPT !.isExecutingRef = FALSE, !.timer = "none"]
    /\ VoiceOnly

NextVoice ==
    \/ \E intent \in IntentTypes, entities \in ExtractedEntities :
          ProcessText(intent, entities)
    \/ UpdateAssistantMessage
    \/ \E stale \in BOOLEAN : StartListening(stale)
    \/ HandleClose
    \/ RunEffect
    \/ \E outcome \in {"true", "false", "throws"} : Settle(outcome)
    \/ TimerFires

SpecVoice == InitLedger /\ [][NextVoice]_vars

\* C36: onTransaction is called at most once for a confirmed command,
\* whatever the order of inputs, effect runs, timers and outcomes of
\* onTransaction.
C36_ExecutesAtMostOnce == voice.invoked <= 1


\* The step is a processText call with the given intent.
Heard(intent) == voice'.heard # voice.heard /\ voice'.heard.intent = intent

\* The fields of a context the conversation goes by.
Slots(context) ==
    <<context.state, context.intent, context.amount, context.description,
      context.transactionType>>

\* The step is a confirm intent received in state confirming with an amount
\* above 0, a description and a transaction type, and the command emitted
\* is made of them.
ConfirmedStep ==
    /\ Heard("confirm")
    /\ voice.context.state = "confirming"
    /\ voice.context.amount # <<>>
    /\ voice.context.amount[1] > 0
    /\ voice.context.description # Null
    /\ voice.context.transactionType # Null
    /\ voice'.context.state = "executing"
    /\ voice'.lastCommand = <<[amount |-> voice.context.amount[1],
                               description |-> voice.context.description,
                               type |-> voice.context.transactionType]>>

MaxSignups == 2

\* A decimal number whole + frac / 1000, with frac in 0..999: -0.004 is
\* Dec(-1, 996).
Dec(whole, frac) == [whole |-> whole, frac |-> frac]

DecLess(a, b) == a.whole < b.whole \/ (a.whole = b.whole /\ a.frac < b.frac)

\* x::NUMERIC(12, 2): x rounded to two decimals, a half away from zero.
RoundCents(x) ==
    LET cents == IF x.whole >= 0 THEN (x.frac + 5) \div 10 ELSE (x.frac + 4) \div 10
    IN  IF cents = 100 THEN Dec(x.whole + 1, 0) ELSE Dec(x.whole, cents * 10)

\* raw_user_meta_data of the new row of auth.users: no initial_balance, one
\* that is no number, or a number.
SignupValues ==
    {Dec(-1, 0), Dec(-1, 995), Dec(-1, 996), Dec(0, 0), Dec(0, 4), Dec(0, 5),
     Dec(56000, 0), Dec(9999999, 995), Dec(10000000, 0), Dec(10000000, 4),
     Dec(10000000, 5), Dec(10000001, 0)}

SignupMetadata ==
    {[kind |-> "none", value |-> Dec(0, 0)], [kind |-> "text", value |-> Dec(0, 0)]}
        \cup {[kind |-> "number", value |-> v] : v \in SignupValues}

\* Ids of the users who sign up, in the order they do.
NewUsers == <<"u3", "u4", "u5">>

\* Mutant of HandleNewUser: the balance is not capped at 10000000.
HandleNewUserNoCeiling(meta) ==
    LET cast == IF meta.kind = "none" THEN Dec(10000, 0) ELSE RoundCents(meta.value)
    IN  [raised |-> meta.kind = "text",
         balance |-> IF DecLess(cast, Dec(0, 0)) THEN Dec(0, 0) ELSE cast]

\* handle_new_user(): the balance of the profile it inserts, or raised =
\* TRUE when the cast of initial_balance fails.
HandleNewUser(meta) ==
    LET cast == IF meta.kind = "none" THEN Dec(10000, 0) ELSE RoundCents(meta.value)
    IN  [raised |-> meta.kind = "text",
         balance |-> IF DecLess(cast, Dec(0, 0)) THEN Dec(0, 0)
                     ELSE IF DecLess(Dec(10000000, 0), cast) THEN Dec(10000000, 0)
                     ELSE cast]

\* A row is inserted into auth.users and the trigger on_auth_user_created
\* runs handle_new_user; an error in the trigger undoes the insert. calls
\* keeps the metadata of the last sign-up.
SignUp(meta) ==
    /\ Cardinality(DOMAIN profiles) < 2 + MaxSignups
    /\ \E id \in {NewUsers[Cardinality(DOMAIN profiles) - 1]}, out \in {HandleNewUser(meta)} :
          /\ profiles' = IF out.raised THEN profiles
                         ELSE [u \in DOMAIN profiles \cup {id} |->
                                  IF u = id
                                  THEN [balance |-> out.balance, last_synced_at |-> 0]
                                  ELSE profiles[u]]
          /\ calls' = <<[user_id |-> id, raw_user_meta_data |-> meta,
                         raised |-> out.raised]>>
    /\ UNCHANGED <<ledger, now, inflight, origin, payment_requests, request, deviceVars>>

NextSignUp == \E meta \in SignupMetadata : SignUp(meta)

SpecSignUp == InitLedger /\ [][NextSignUp]_vars

InRange(x) == ~DecLess(x, Dec(0, 0)) /\ ~DecLess(Dec(10000000, 0), x)

\* A user signed up in this step and has a profile.
SignedUp ==
    /\ DOMAIN profiles' # DOMAIN profiles
    /\ calls' # <<>>
    /\ calls'[1].user_id \in DOMAIN profiles' \ DOMAIN profiles

\* C38: handle_new_user creates the profile with the initial_balance of
\* the metadata as its balance when that lies in [0, 10000000], with
\* 10000.00 when none is given, and never with a balance outside
\* [0, 10000000]; a requested balance outside the range is not the
\* balance of the profile.
C38_InitialBalance ==
    [][SignedUp =>
          LET meta == calls'[1].raw_user_meta_data
              balance == profiles'[calls'[1].user_id].balance
          IN  /\ InRange(balance)
              /\ meta.kind = "none" => balance = Dec(10000, 0)
              /\ (meta.kind = "number" /\ InRange(meta.value)) => balance = meta.value
              /\ (meta.kind = "number" /\ ~InRange(meta.value)) => balance # meta.value
    ]_vars

\* C38, amended: the balance is the initial_balance rounded to two decimals
\* when that lies in [0, 10000000], 10000.00 when none is given, and never
\* outside [0, 10000000]; a requested balance outside the range is not the
\* balance of the profile.
C38_InitialBalanceRounded ==
    [][SignedUp =>
          LET meta == calls'[1].raw_user_meta_data
              balance == profiles'[calls'[1].user_id].balance
          IN  /\ InRange(balance)
              /\ meta.kind = "none" => balance = Dec(10000, 0)
              /\ (meta.kind = "number" /\ InRange(meta.value)) =>
                    LET below == meta.value.frac - (meta.value.frac % 10)
                    IN  balance = IF (meta.value.frac % 10) < 5
                                  THEN Dec(meta.value.whole, below)
                                  ELSE IF below = 990
                                  THEN Dec(meta.value.whole + 1, 0)
                                  ELSE Dec(meta.value.whole, below + 10)
              /\ (meta.kind = "number" /\ ~InRange(meta.value)) => balance # meta.value
    ]_vars

C38_Witness ==
    /\ Cardinality(DOMAIN profiles) = 4
    /\ profiles[NewUsers[1]].balance = Dec(10000000, 0)
    /\ profiles[NewUsers[2]].balance = Dec(0, 10)
    /\ calls # <<>>
    /\ calls[1].raw_user_meta_data = [kind |-> "number", value |-> Dec(0, 5)]


====
